---- MODULE Spec2Model ----
(***************************************************************************)
(* Maestro: the Conductor (pkg/conductor), its Run State, the context      *)
(* binder (pkg/binder) and the Simple Reconciler (pkg/reconciler/simple),  *)
(* run against a versioned object store (the controller-runtime client).   *)
(*                                                                         *)
(* Every store call of doReconcile is one atomic step, so other writers    *)
(* can interleave between the calls of one invocation.  The Reconcile      *)
(* wrapper's AddCondition is part of the step that returns from            *)
(* doReconcile.                                                            *)
(***************************************************************************)
EXTENDS Integers, Sequences, FiniteSets, TLC

\* ---------------------------------------------------------------- bounds
\* writes the store accepts before its version counter is exhausted
MaxRv == 4
\* writes made by writers other than the reconcilers
MaxExt == 1
\* invocations of Reconcile (or of Conduct) one caller makes
MaxInv == 2
\* length of the Conductor's registration list
MaxSteps == 3

Runs == {"r1", "r2"}
Sequential == {"r1"}
StepNames == {"A", "B", "C"}
ParentNames == {"web", "db"}

\* ------------------------------------------------------- values, results
Nil == [nil |-> TRUE]
Absent == [absent |-> TRUE]
NoOwner == "none"
NoErr == "nil"

\* reconcile.Result{}
Idle == [Requeue |-> FALSE, RequeueAfter |-> 0]
\* reconcile.Result{Requeue: true}
RequeueNow == [Requeue |-> TRUE, RequeueAfter |-> 0]

\* client.ObjectKeyFromObject
ObjectKeyFromObject(o) == [name |-> o.name, namespace |-> o.namespace]

Keys == {[name |-> n, namespace |-> "default"] : n \in ParentNames \cup {"other"}}

\* The parents conduct and Reconcile are called with.  deleting: the parent
\* carries a deletion timestamp; gone: what the caller's ShouldDeleteFn
\* answers for it; spec: the field the caller's ReconcileFn derives the
\* child from.
ParentsNamed(names) ==
    [name : names, deleting : BOOLEAN, gone : BOOLEAN, spec : {1, 2}]

\* reconciler.IsNotMarkedForDeletion
IsNotMarkedForDeletion(p) == ~p.deleting

\* The caller's ChildKeyFn: a child with only name and namespace set.
ChildKeyFn(p) == [name |-> p.name, namespace |-> "default"]

\* The caller's ShouldDeleteFn.
ShouldDeleteFn(p) == p.gone

\* The caller's PredicateFn, by the configured function.
PredicateFn(c, p) ==
    IF c.PredicateFn = "IsNotMarkedForDeletion" THEN IsNotMarkedForDeletion(p)
    ELSE TRUE

\* The caller's ReconcileFn: the desired child as a function of the parent.
\* spec 1 leaves the defaulted field unset (0), spec 2 sets it explicitly.
\* c.ReconcileFn says which name the function gives the child: the child
\* key's ("match"), none ("emptyKey") or another one ("otherKey").
ReconcileFn(c, p) ==
    [name      |-> CASE c.ReconcileFn = "match" -> p.name
                     [] c.ReconcileFn = "emptyKey" -> ""
                     [] OTHER -> "other",
     namespace |-> IF c.ReconcileFn = "emptyKey" THEN "" ELSE "default",
     data      |-> p.spec,
     dflt      |-> IF p.spec = 1 THEN 0 ELSE 2,
     ann       |-> 0,
     status    |-> 0,
     mf        |-> 0,
     owner     |-> NoOwner,
     rv        |-> 0,
     uid       |-> 0,
     ts        |-> 0,
     gen       |-> 0]

\* The step configurations: the fields of simple.Reconciler.
SimpleConfigs ==
    {c \in [Kind           : {"simple"},
            ShouldDeleteFn : BOOLEAN,
            ChildKeyFn     : BOOLEAN,
            PredicateFn    : {"nil", "IsNotMarkedForDeletion"},
            NoReference    : BOOLEAN,
            DryRunType     : {"warn", "silent", "none"},
            CompareOpts    : {{}, {"IgnoreAnnotations"}},
            PreUpdateFn    : {"nil", "copy"},
            ReconcileFn    : {"match", "emptyKey", "otherKey"}] :
        \* ChildKeyFn is required if ShouldDeleteFn is set; a ReconcileFn may
        \* leave the name to the backfill, or disagree with the declared key,
        \* only when there is a ChildKeyFn that declares one
        /\ c.ShouldDeleteFn => c.ChildKeyFn
        /\ c.ReconcileFn # "match" => c.ChildKeyFn}

\* ------------------------------------------------------------- the store
\* What the store makes of a written object: server-side defaulting of the
\* unset field, and its own managed-fields bookkeeping.
Normalize(o) == [o EXCEPT !.dflt = IF @ = 0 THEN 1 ELSE @, !.mf = 1]

\* get(ref): a key without a name is refused before any lookup
StoreGet(s, key) ==
    IF key \notin DOMAIN s THEN [err |-> "Invalid", obj |-> Nil]
    ELSE IF s[key] = Absent THEN [err |-> "NotFound", obj |-> Nil]
    ELSE [err |-> NoErr, obj |-> s[key]]

\* create(entity): the stored object, with the tokens the store assigns
StoreCreate(s, rvc, o) ==
    LET key == ObjectKeyFromObject(o) IN
    IF s[key] # Absent THEN [err |-> "AlreadyExists", obj |-> o, store |-> s]
    ELSE LET new == [Normalize(o) EXCEPT !.rv = rvc + 1, !.uid = rvc + 1,
                                         !.ts = rvc + 1, !.gen = 1]
         IN [err |-> NoErr, obj |-> new, store |-> [s EXCEPT ![key] = new]]

\* update(entity, dryRun): optimistic concurrency on the version token; the
\* status subtree is not written through update; a dry run persists nothing
\* and answers with the object as it would be stored.
StoreUpdate(s, rvc, o, dryRun) ==
    LET key == ObjectKeyFromObject(o)
        cur == s[key] IN
    IF cur = Absent THEN [err |-> "NotFound", obj |-> o, store |-> s]
    ELSE IF o.rv # cur.rv \/ o.uid # cur.uid
         THEN [err |-> "Conflict", obj |-> o, store |-> s]
    ELSE LET specChanged == o.data # cur.data \/ Normalize(o).dflt # cur.dflt
             new == [Normalize(o) EXCEPT
                        !.status = cur.status,
                        !.ts = cur.ts,
                        !.gen = IF specChanged THEN cur.gen + 1 ELSE cur.gen,
                        !.rv = IF dryRun THEN cur.rv ELSE rvc + 1]
         IN [err |-> NoErr, obj |-> new,
             store |-> IF dryRun THEN s ELSE [s EXCEPT ![key] = new]]

\* delete(entity)
StoreDelete(s, o) ==
    LET key == ObjectKeyFromObject(o) IN
    IF s[key] = Absent THEN [err |-> "NotFound", store |-> s]
    ELSE [err |-> NoErr, store |-> [s EXCEPT ![key] = Absent]]

\* -------------------------------------------------------------- equality
\* The paths cmp.Equal compares, given the options: IgnoreManagedFields,
\* IgnoreTypeMeta and IgnoreStatusFields are always appended.
ComparedFields(opts) ==
    {"name", "namespace", "data", "dflt", "ann", "owner", "rv", "uid", "ts", "gen"}
        \ (IF "IgnoreAnnotations" \in opts THEN {"ann"} ELSE {})

\* cmp.Equal(a, b, compareOpts...)
CmpEqual(a, b, opts) == \A f \in ComparedFields(opts) : a[f] = b[f]

\* ---------------------------------------------------- the context binder
\* A context is an immutable chain of (key, value) pairs; a derived context
\* is the chain with one more pair.  context.Value answers with the latest
\* pair of the key, or untyped nil.
EmptyCtx == <<>>
\* the nil context a failed bind returns
NilCtx == <<[key |-> [kind |-> "nil", id |-> "nil"], val |-> [type |-> "nil", ref |-> "nil"]]>>
UntypedNil == [type |-> "nil", ref |-> "nil"]

\* StaticBindable[T].key: a nil *T, the same for every instance of type T
StaticKey(T) == [kind |-> "static", id |-> T]

\* ctx.Value(key)
CtxValue(ctx, key) ==
    LET at == {i \in 1..Len(ctx) : ctx[i].key = key} IN
    IF at = {} THEN UntypedNil
    ELSE ctx[CHOOSE i \in at : \A j \in at : j <= i].val

\* DynamicBindable: the binder.ContextKey its keyFunc returns
DynamicKey(id) == [kind |-> "dynamic", id |-> id]

\* BindToContext as it would be if it put the pair behind the older pairs.
BindToContextPrepending(ctx, key, value) ==
    IF CtxValue(ctx, key) # UntypedNil
    THEN [ctx |-> NilCtx, err |-> "ErrContextExists"]
    ELSE [ctx |-> <<[key |-> key, val |-> value]>> \o ctx, err |-> NoErr]

\* BindToContext as it would be if it did not look for an attached value.
BindToContextOverwriting(ctx, key, value) ==
    [ctx |-> Append(ctx, [key |-> key, val |-> value]), err |-> NoErr]

\* StaticBindable.BindToContext / DynamicBindable.BindToContext
BindToContext(ctx, key, value) ==
    IF CtxValue(ctx, key) # UntypedNil
    THEN [ctx |-> NilCtx, err |-> "ErrContextExists"]
    ELSE [ctx |-> Append(ctx, [key |-> key, val |-> value]), err |-> NoErr]

\* Unbind as it would be if it returned a context without any value.
UnbindEverything(ctx, key) == EmptyCtx

\* Unbind as it would be if it returned the context it was given.
UnbindNothing(ctx, key) == ctx

\* StaticBindable.Unbind / DynamicBindable.Unbind
Unbind(ctx, key) == Append(ctx, [key |-> key, val |-> UntypedNil])

\* FromContext as it would be without the type assertion.
FromContextUnasserted(ctx, key, T) ==
    LET v == CtxValue(ctx, key) IN
    IF v = UntypedNil THEN [val |-> Nil, err |-> "ErrStateNotFound"]
    ELSE [val |-> v, err |-> NoErr]

\* StaticBindable[T].FromContext / DynamicBindable[T].FromContext
FromContext(ctx, key, T) ==
    LET v == CtxValue(ctx, key) IN
    IF v = UntypedNil THEN [val |-> Nil, err |-> "ErrStateNotFound"]
    ELSE IF v.type = T THEN [val |-> v, err |-> NoErr]
    ELSE [val |-> Nil, err |-> "ErrStateMismatch"]

\* ----------------------------------------------------------- Run State
\* var contextBinder = binder.StaticBindable[State]{}
contextBinder == StaticKey("State")

\* &State{Conditions: []metav1.Condition{}}
NewState == [Conditions |-> <<>>, ctx |-> NilCtx]

\* The *State as it would be if every run was given one shared State.
StatePtrShared(r) == [type |-> "State", ref |-> "r1"]

\* a *State: the State object of run r
StatePtr(r) == [type |-> "State", ref |-> r]

\* AddCondition as it would be if it replaced the list instead of appending.
AddConditionReplacing(s, condition) == [s EXCEPT !.Conditions = <<condition>>]

\* AddCondition as it would be if it put the condition first.
AddConditionPrepending(s, condition) == [s EXCEPT !.Conditions = <<condition>> \o @]

\* State.AddCondition
AddCondition(s, condition) == [s EXCEPT !.Conditions = Append(@, condition)]

\* State.UpdateContext
UpdateContext(s, ctx) == [s EXCEPT !.ctx = ctx]

\* conductor.FetchState
FetchState(ctx) == FromContext(ctx, contextBinder, "State")

\* conductor.BindState on a new State: the derived context and the State
\* with its back-reference set
BindState(ctx, r) ==
    LET b == BindToContext(ctx, contextBinder, StatePtr(r)) IN
    IF b.err # NoErr THEN [ctx |-> NilCtx, err |-> b.err, state |-> NewState]
    ELSE [ctx |-> b.ctx, err |-> NoErr, state |-> UpdateContext(NewState, b.ctx)]

\* conductor.ClearState
ClearState(ctx) == Unbind(ctx, contextBinder)

\* conditionFromResult as it would be if it did not look at the result.
ConditionFromResultTrue(result) == "True"

\* conditionFromResult
ConditionFromResult(result) ==
    IF result.Requeue \/ result.RequeueAfter > 0 THEN "False" ELSE "True"

\* The condition Reconcile appends for a result of doReconcile.  The type
\* is the step's name followed by the suffix.
ConditionFor(name, result, e) ==
    IF e # NoErr
    THEN [Type |-> <<name, "Error">>, Status |-> "True",
          Reason |-> "ReconcileError", Message |-> e]
    ELSE [Type |-> <<name, "Reconciled">>, Status |-> ConditionFromResult(result),
          Reason |-> "Reconciled", Message |-> "Reconciled successfully"]

\* ------------------------------------------------------------- the state
VARIABLES
    store,        \* the entity store: key -> stored child, or Absent
    rvCounter,    \* the store's version counter
    extWrites,    \* writes made so far by other writers
    steps,        \* the configuration of each named step
    reconcilers,  \* Conductor.reconcilers: the registration list
    handler,      \* Conductor.conditionsHandler is configured
    dparent,      \* Conductor.parent
    runState,     \* the State object each run created last
    cd,           \* per run: the frame of Conduct
    rc,           \* per run: the frame of Reconcile / doReconcile
    gh,           \* per run: history kept for the properties
    binding,      \* a context handed from call to call of the binder
    adder,        \* a State that goroutines append to concurrently
    fork,         \* the contexts two branches derive from a common parent
    twin          \* one invocation made twice: what the first one did

vars == <<store, rvCounter, extWrites, steps, reconcilers, handler, dparent,
          runState, cd, rc, gh, binding, adder, fork, twin>>

\* var childKey client.ObjectKey
ZeroKey == [name |-> "", namespace |-> ""]

NoFrame ==
    [pc |-> "none", step |-> "A", parent |-> Nil, ctx |-> EmptyCtx,
     caller |-> "none", childKey |-> ZeroKey, desired |-> Nil, current |-> Nil,
     desiredCopy |-> Nil, currentHack |-> Nil, result |-> Idle, err |-> NoErr,
     calls |-> <<>>, evals |-> {}, pre |-> 0]

\* The frame of a call Reconcile(ctx, k8sCli, parent) of step `name`.
EnterReconcile(name, p, ctx, caller) ==
    [NoFrame EXCEPT
        !.pc = IF steps[name].ShouldDeleteFn THEN "precheck" ELSE "compute",
        !.step = name, !.parent = p, !.ctx = ctx, !.caller = caller]

\* What an invocation did, by the calls that succeeded.
Outcome(f) ==
    LET did(op) == \E i \in 1..Len(f.calls) : f.calls[i].op = op /\ f.calls[i].ok IN
    CASE f.err # NoErr -> "FAIL"
      [] did("create") -> "CREATE"
      [] did("update") -> "UPDATE"
      [] did("delete") -> "DELETE"
      [] OTHER -> "NOOP"

\* History: the invocation of the same step for the same parent that ended
\* just before this one began, with no write by anyone else since it began:
\* its outcome, or "none".
Remember(r, name, p) ==
    [gh EXCEPT ![r] =
        [@ EXCEPT !.foreign = FALSE,
                  !.prev = IF /\ rc[r].pc = "ret" /\ ~gh[r].foreign
                              /\ rc[r].step = name /\ rc[r].parent = p
                           THEN Outcome(rc[r])
                           ELSE "none"]]

\* History: a write by `r` (or by another writer: r = "ext") is foreign to
\* every other run.
Foreign(r) ==
    [q \in Runs |-> IF q = r THEN gh[q] ELSE [gh[q] EXCEPT !.foreign = TRUE]]

\* History: the call `op` with argument `arg`, to which the store answered e.
Logged(f, op, e, arg) ==
    Append(f.calls, [op |-> op, ok |-> e = NoErr, err |-> e, arg |-> arg])

\* Reconcile as it would be if it returned the error of FetchState when no
\* Run State is bound.
FinishReportingNoState(r, f, result, e, g) ==
    LET fs == FetchState(f.ctx)
        cond == ConditionFor(f.step, result, e) IN
    /\ rc' = [rc EXCEPT ![r] = [f EXCEPT !.pc = "ret", !.result = result,
                                         !.err = IF fs.err # NoErr THEN fs.err ELSE e]]
    /\ runState' =
         IF fs.err = NoErr
         THEN [runState EXCEPT ![fs.val.ref] = AddCondition(@, cond)]
         ELSE runState
    /\ gh' = IF fs.err = NoErr THEN [g EXCEPT ![r].log = Append(@, cond)] ELSE g

\* Reconcile: doReconcile returned (result, e) in frame f; with a Run State
\* in the context the condition is appended before Reconcile returns.  g is
\* the history so far, to which the appended condition is added.
Finish(r, f, result, e, g) ==
    LET fs == FetchState(f.ctx)
        cond == ConditionFor(f.step, result, e) IN
    /\ rc' = [rc EXCEPT ![r] = [f EXCEPT !.pc = "ret", !.result = result, !.err = e]]
    /\ runState' =
         IF fs.err = NoErr
         THEN [runState EXCEPT ![fs.val.ref] = AddCondition(@, cond)]
         ELSE runState
    /\ gh' = IF fs.err = NoErr THEN [g EXCEPT ![r].log = Append(@, cond)] ELSE g

Goto(r, f, pc, g) ==
    /\ rc' = [rc EXCEPT ![r] = [f EXCEPT !.pc = pc]]
    /\ gh' = g
    /\ UNCHANGED runState

\* ----------------------------------------------------------- doReconcile
Cfg(f) == steps[f.step]

\* The gate as it would be if the predicate was never asked.
GatedNever(c, p) == FALSE

\* if r.PredicateFn != nil && !r.PredicateFn(parent)
Gated(c, p) == c.PredicateFn # "nil" /\ ~PredicateFn(c, p)

\* Backfill the name and namespace if not already set by the ReconcileFn
Backfill(d, childKey) ==
    [d EXCEPT !.name = IF @ = "" THEN childKey.name ELSE @,
              !.namespace = IF @ = "" THEN childKey.namespace ELSE @]

\* The key check as it would be if it compared the namespaces only.
KeyMismatchNamespaceOnly(d, childKey) == childKey.namespace # d.namespace

\* childKey.Namespace != desired.GetNamespace() || childKey.Name != desired.GetName()
KeyMismatch(d, childKey) ==
    childKey.namespace # d.namespace \/ childKey.name # d.name

\* SetControllerReference as it would be if it left the child unstamped.
SetNoReference(p, d) == d

\* controllerutil.SetControllerReference(parent, desired, scheme), when the
\* scheme resolves the parent's kind
SetControllerReference(p, d) == [d EXCEPT !.owner = p.name]

\* The token copy as it would be without SetResourceVersion.
CopyTokensNoVersion(d, cur) ==
    [d EXCEPT !.ts = cur.ts, !.gen = cur.gen, !.uid = cur.uid]

\* desired.SetResourceVersion / SetCreationTimestamp / SetGeneration / SetUID
CopyTokens(d, cur) ==
    [d EXCEPT !.rv = cur.rv, !.ts = cur.ts, !.gen = cur.gen, !.uid = cur.uid]

\* The caller's PreUpdateFn when it succeeds: "copy" carries a field the
\* store assigned over from the previous child.
PreUpdateFn(c, p, previous, child) ==
    IF c.PreUpdateFn = "copy" THEN [child EXCEPT !.dflt = previous.dflt]
    ELSE child

\* x.DeepCopyObject().(Child)
DeepCopyObject(o) == o

\* The pre-check as it would be if ShouldDeleteFn's answer was dropped.
PrecheckNextNoDelete(e, p) ==
    IF e # NoErr /\ e # "NotFound" THEN "fail" ELSE "compute"

\* The pre-check as it would be if a missing child was an error like any
\* other.
PrecheckNextStrict(e, p) ==
    IF e = NoErr /\ ShouldDeleteFn(p) THEN "delete"
    ELSE IF e # NoErr THEN "fail"
    ELSE "compute"

\* The pre-check after Get returned err: delete the child, fail, or go on.
\* ShouldDeleteFn is asked only when the Get succeeded.
PrecheckNext(e, p) ==
    IF e = NoErr /\ ShouldDeleteFn(p) THEN "delete"
    ELSE IF e # NoErr /\ e # "NotFound" THEN "fail"
    ELSE "compute"

\* The branch after the comparison as it would be if its answer was dropped.
AfterCompareBlind(c, equal) ==
    IF c.DryRunType # "none" THEN "dryDesired" ELSE "update"

\* The branch after the comparison as it would be if only DryRunWarn made
\* the dry runs.
AfterCompareWarnOnly(c, equal) ==
    IF equal THEN "noop"
    ELSE IF c.DryRunType = "warn" THEN "dryDesired"
    ELSE "update"

\* After cmp.Equal(current, desired): no changes, or the dry run, or the
\* update.
AfterCompare(c, equal) ==
    IF equal THEN "noop"
    ELSE IF c.DryRunType # "none" THEN "dryDesired"
    ELSE "update"

\* The branch after the dry runs as it would be if it always updated.
AfterDryRunAlways(equal) == "update"

\* After cmp.Equal(currentHack, desiredCopy)
AfterDryRun(equal) == IF equal THEN "noop" ELSE "update"

\* The update as it would be if it was issued with the fetched child.
UpdateArgCurrent(f) == f.current

\* The update as it would be if it was issued with the dry run's copy.
UpdateArgCopy(f) == IF f.desiredCopy # Nil THEN f.desiredCopy ELSE f.desired

\* The object the real update is issued with: k8sCli.Update(ctx, desired)
UpdateArg(f) == f.desired

\* The result of a change as it would be if it did not ask for a requeue.
ChangedIdle == Idle

\* The result of a successful create, update or delete
Changed == RequeueNow

\* The result returned together with an error, as it would be if it asked
\* for a requeue after a delay.
FailedRequeueAfter == [Requeue |-> FALSE, RequeueAfter |-> 1]

\* The result returned together with an error, as it would be if it asked
\* for a requeue.
FailedRequeue == RequeueNow

\* The result returned together with an error
Failed == Idle

\* if r.ShouldDeleteFn != nil { current := r.ChildKeyFn(parent); Get ... }
Precheck(r) ==
    LET f == rc[r] IN
    /\ f.pc = "precheck"
    /\ \E fail \in BOOLEAN :
         LET cur == ChildKeyFn(f.parent)
             key == ObjectKeyFromObject(cur)
             g == IF fail THEN [err |-> "StoreError", obj |-> Nil]
                  ELSE StoreGet(store, key)
             f1 == [f EXCEPT !.childKey = key,
                             !.calls = Logged(f, "get", g.err, key),
                             !.evals = IF g.err = NoErr
                                       THEN @ \cup {"ShouldDeleteFn"} ELSE @]
             next == PrecheckNext(g.err, f.parent)
         IN CASE next = "delete" -> Goto(r, [f1 EXCEPT !.current = g.obj], "delete", gh)
              [] next = "fail" -> Finish(r, f1, Failed, g.err, gh)
              [] OTHER -> Goto(r, f1, "compute", gh)
    /\ UNCHANGED <<store, rvCounter, extWrites, steps, reconcilers, handler,
                   dparent, cd>>
    /\ UNCHANGED <<binding, adder, fork, twin>>

\* Delete as it would be without the return after a successful delete: the
\* invocation goes on to compute and write the child.
DeleteThenGoOn(r) ==
    LET f == rc[r] IN
    /\ f.pc = "delete"
    /\ \E fail \in BOOLEAN :
         LET d == IF fail THEN [err |-> "StoreError", store |-> store]
                  ELSE StoreDelete(store, f.current)
             f1 == [f EXCEPT !.calls = Logged(f, "delete", d.err,
                                              ObjectKeyFromObject(f.current))]
         IN /\ store' = d.store
            /\ IF d.err # NoErr THEN Finish(r, f1, Failed, d.err, gh)
               ELSE Goto(r, f1, "compute", Foreign(r))
    /\ UNCHANGED <<rvCounter, extWrites, steps, reconcilers, handler, dparent, cd>>
    /\ UNCHANGED <<binding, adder, fork, twin>>

\* k8sCli.Delete(ctx, current)
Delete(r) ==
    LET f == rc[r] IN
    /\ f.pc = "delete"
    /\ \E fail \in BOOLEAN :
         LET d == IF fail THEN [err |-> "StoreError", store |-> store]
                  ELSE StoreDelete(store, f.current)
             f1 == [f EXCEPT !.calls = Logged(f, "delete", d.err,
                                              ObjectKeyFromObject(f.current))]
         IN /\ store' = d.store
            /\ IF d.err # NoErr THEN Finish(r, f1, Failed, d.err, gh)
               ELSE Finish(r, f1, Changed, NoErr, Foreign(r))
    /\ UNCHANGED <<rvCounter, extWrites, steps, reconcilers, handler, dparent, cd>>
    /\ UNCHANGED <<binding, adder, fork, twin>>

\* PredicateFn, ReconcileFn, the child key check and the owner reference:
\* no store call between them.
Compute(r) ==
    LET f == rc[r]
        c == Cfg(f)
        p == f.parent IN
    /\ f.pc = "compute"
    /\ IF Gated(c, p)
       THEN Finish(r, [f EXCEPT !.evals = @ \cup {"PredicateFn"}], Idle, NoErr, gh)
       ELSE \E computeErr \in BOOLEAN, ownerErr \in BOOLEAN :
         LET f1 == [f EXCEPT !.evals = @ \cup {"ReconcileFn"}
                                \cup (IF c.PredicateFn # "nil" THEN {"PredicateFn"} ELSE {})]
             d0 == ReconcileFn(c, p)
             d1 == IF c.ChildKeyFn THEN Backfill(d0, f.childKey) ELSE d0
         IN IF computeErr THEN ownerErr /\ Finish(r, f1, Failed, "ComputeError", gh)
            ELSE IF c.ChildKeyFn /\ KeyMismatch(d1, f.childKey)
                 THEN ownerErr /\ Finish(r, [f1 EXCEPT !.desired = d1], Failed, "ErrChildKeyMismatch", gh)
            ELSE IF c.NoReference
                 THEN ownerErr /\ Goto(r, [f1 EXCEPT !.desired = d1], "fetch", gh)
            ELSE IF ownerErr
                 THEN Finish(r, [f1 EXCEPT !.desired = d1], Failed, "OwnerLinkError", gh)
            ELSE Goto(r, [f1 EXCEPT !.desired = SetControllerReference(p, d1)], "fetch", gh)
    /\ UNCHANGED <<store, rvCounter, extWrites, steps, reconcilers, handler,
                   dparent, cd>>
    /\ UNCHANGED <<binding, adder, fork, twin>>

\* k8sCli.Get(ctx, key, current), and on success the token copy, PreUpdateFn
\* and the comparison
Fetch(r) ==
    LET f == rc[r]
        c == Cfg(f)
        key == ObjectKeyFromObject(f.desired) IN
    /\ f.pc = "fetch"
    /\ \E fail \in BOOLEAN, preErr \in BOOLEAN :
         LET g == IF fail THEN [err |-> "StoreError", obj |-> Nil]
                  ELSE StoreGet(store, key)
             f1 == [f EXCEPT !.calls = Logged(f, "get", g.err, key)]
         IN IF g.err # NoErr
            THEN /\ preErr
                 /\ IF g.err # "NotFound" THEN Finish(r, f1, Failed, g.err, gh)
                    ELSE Goto(r, f1, "create", gh)
            ELSE LET d3 == CopyTokens(f.desired, g.obj)
                     f2 == [f1 EXCEPT !.current = g.obj, !.desired = d3,
                                      !.evals = IF c.PreUpdateFn # "nil"
                                                THEN @ \cup {"PreUpdateFn"} ELSE @,
                                      !.pre = IF c.PreUpdateFn # "nil" THEN @ + 1 ELSE @]
                     d4 == PreUpdateFn(c, f.parent, g.obj, d3)
                     f3 == [f2 EXCEPT !.desired = d4]
                     next == AfterCompare(c, CmpEqual(g.obj, d4, c.CompareOpts))
                 IN IF c.PreUpdateFn # "nil" /\ preErr
                    THEN Finish(r, f2, Failed, "PreUpdateError", gh)
                    ELSE /\ (c.PreUpdateFn = "nil" => preErr)
                         /\ IF next = "noop" THEN Finish(r, f3, Idle, NoErr, gh)
                            ELSE Goto(r, f3, next, gh)
    /\ UNCHANGED <<store, rvCounter, extWrites, steps, reconcilers, handler,
                   dparent, cd>>
    /\ UNCHANGED <<binding, adder, fork, twin>>

\* k8sCli.Create(ctx, desired)
Create(r) ==
    LET f == rc[r] IN
    /\ f.pc = "create"
    /\ rvCounter < MaxRv
    /\ \E fail \in BOOLEAN :
         LET res == IF fail THEN [err |-> "StoreError", obj |-> f.desired, store |-> store]
                    ELSE StoreCreate(store, rvCounter, f.desired)
             f1 == [f EXCEPT !.calls = Logged(f, "create", res.err, f.desired),
                             !.desired = res.obj]
         IN /\ store' = res.store
            /\ rvCounter' = IF res.err = NoErr THEN rvCounter + 1 ELSE rvCounter
            /\ IF res.err # NoErr THEN Finish(r, f1, Failed, res.err, gh)
               ELSE Finish(r, f1, Changed, NoErr, Foreign(r))
    /\ UNCHANGED <<extWrites, steps, reconcilers, handler, dparent, cd>>
    /\ UNCHANGED <<binding, adder, fork, twin>>

\* desiredCopy := desired.DeepCopyObject(); k8sCli.Update(ctx, desiredCopy, client.DryRunAll)
DryRunDesired(r) ==
    LET f == rc[r] IN
    /\ f.pc = "dryDesired"
    /\ \E fail \in BOOLEAN :
         LET arg == DeepCopyObject(f.desired)
             res == IF fail THEN [err |-> "StoreError", obj |-> arg, store |-> store]
                    ELSE StoreUpdate(store, rvCounter, arg, TRUE)
             f1 == [f EXCEPT !.calls = Logged(f, "dryrun", res.err, arg),
                             !.desiredCopy = res.obj]
         IN /\ store' = res.store
            /\ IF res.err # NoErr THEN Finish(r, f1, Failed, res.err, gh)
               ELSE Goto(r, f1, "dryCurrent", gh)
    /\ UNCHANGED <<rvCounter, extWrites, steps, reconcilers, handler, dparent, cd>>
    /\ UNCHANGED <<binding, adder, fork, twin>>

\* currentHack := current.DeepCopyObject(); k8sCli.Update(ctx, currentHack, client.DryRunAll)
\* and the comparison of the two dry-run results
DryRunCurrent(r) ==
    LET f == rc[r]
        c == Cfg(f) IN
    /\ f.pc = "dryCurrent"
    /\ \E fail \in BOOLEAN :
         LET arg == DeepCopyObject(f.current)
             res == IF fail THEN [err |-> "StoreError", obj |-> arg, store |-> store]
                    ELSE StoreUpdate(store, rvCounter, arg, TRUE)
             f1 == [f EXCEPT !.calls = Logged(f, "dryrun", res.err, arg),
                             !.currentHack = res.obj]
             next == AfterDryRun(CmpEqual(res.obj, f.desiredCopy, c.CompareOpts))
         IN /\ store' = res.store
            /\ IF res.err # NoErr THEN Finish(r, f1, Failed, res.err, gh)
               ELSE IF next = "noop" THEN Finish(r, f1, Idle, NoErr, gh)
               ELSE Goto(r, f1, next, gh)
    /\ UNCHANGED <<rvCounter, extWrites, steps, reconcilers, handler, dparent, cd>>
    /\ UNCHANGED <<binding, adder, fork, twin>>

\* k8sCli.Update(ctx, desired)
Update(r) ==
    LET f == rc[r] IN
    /\ f.pc = "update"
    /\ rvCounter < MaxRv
    /\ \E fail \in BOOLEAN :
         LET arg == UpdateArg(f)
             res == IF fail THEN [err |-> "StoreError", obj |-> arg, store |-> store]
                    ELSE StoreUpdate(store, rvCounter, arg, FALSE)
             f1 == [f EXCEPT !.calls = Logged(f, "update", res.err, arg)]
         IN /\ store' = res.store
            /\ rvCounter' = IF res.err = NoErr THEN rvCounter + 1 ELSE rvCounter
            /\ IF res.err # NoErr THEN Finish(r, f1, Failed, res.err, gh)
               ELSE Finish(r, f1, Changed, NoErr, Foreign(r))
    /\ UNCHANGED <<extWrites, steps, reconcilers, handler, dparent, cd>>
    /\ UNCHANGED <<binding, adder, fork, twin>>

\* ------------------------------------------------------- the environment
\* The parents a step is invoked with.  A field that no configured
\* function of the step reads is left at its zero value.
ParentsFor(c, names) ==
    {p \in ParentsNamed(names) :
        /\ ~c.ShouldDeleteFn => ~p.gone
        /\ c.PredicateFn = "nil" => ~p.deleting}

IdleConduct ==
    [pc |-> "idle", parent |-> Nil, ctx |-> EmptyCtx, idx |-> 0,
     result |-> Idle, err |-> NoErr, invoked |-> <<>>, returned |-> <<>>,
     handled |-> <<>>, mark |-> 0, derived |-> <<>>]

\* A caller invokes step A directly, with or without a Run State bound in
\* the context it passes.
DirectInvoke(r) ==
    /\ cd[r].pc = "idle"
    /\ rc[r].pc \in {"none", "ret"}
    /\ gh[r].n < MaxInv
    /\ \E p \in ParentsFor(steps["A"], {"web"}), bound \in {FALSE} :
         LET b == BindState(EmptyCtx, r) IN
         /\ gh' = [Remember(r, "A", p) EXCEPT ![r].n = @ + 1, ![r].log = <<>>]
         /\ runState' = [runState EXCEPT ![r] = IF bound THEN b.state ELSE NewState]
         /\ rc' = [rc EXCEPT ![r] =
                      EnterReconcile("A", p, IF bound THEN b.ctx ELSE EmptyCtx, "direct")]
    /\ UNCHANGED <<store, rvCounter, extWrites, steps, reconcilers, handler,
                   dparent, cd>>
    /\ UNCHANGED <<binding, adder, fork, twin>>

\* A child as earlier writes left it in the store: created by some writer,
\* its status set by its controller.
StoredChild(data, ann, owner) ==
    [name |-> "web", namespace |-> "default", data |-> data, dflt |-> data,
     ann |-> ann, status |-> 1, mf |-> 1, owner |-> owner,
     rv |-> 1, uid |-> 1, ts |-> 1, gen |-> 1]

ExtKey == [name |-> "web", namespace |-> "default"]

\* Another writer changes the child between two store calls of a running
\* invocation: it removes it, creates it, or changes its spec or its
\* annotations.  (A write that falls before the first call of an invocation
\* is the same to it as a different store to begin with.)
ExtWrite ==
    /\ extWrites < MaxExt
    /\ rvCounter < MaxRv
    /\ \E r \in Runs : rc[r].pc \in {"fetch", "delete", "create", "dryDesired",
                                     "dryCurrent", "update"}
    /\ LET cur == store[ExtKey] IN
       IF cur = Absent
       THEN store' = StoreCreate(store, rvCounter,
                                 [StoredChild(1, 0, NoOwner) EXCEPT !.rv = 0, !.uid = 0]).store
       ELSE \E kind \in {"delete", "spec", "ann"} :
              store' = [store EXCEPT ![ExtKey] =
                  CASE kind = "delete" -> Absent
                    [] kind = "spec" -> [cur EXCEPT !.data = 3 - @, !.gen = @ + 1,
                                                    !.rv = rvCounter + 1]
                    [] OTHER -> [cur EXCEPT !.ann = 1 - @, !.rv = rvCounter + 1]]
    /\ rvCounter' = rvCounter + 1
    /\ extWrites' = extWrites + 1
    /\ gh' = Foreign("ext")
    /\ UNCHANGED <<steps, reconcilers, handler, dparent, runState, cd, rc>>
    /\ UNCHANGED <<binding, adder, fork, twin>>

\* The bindables in use: a StaticBindable for each of two types and two
\* DynamicBindables of different types whose keyFunc returns the same key.
Types == {"State", "Other"}

Bindables ==
    {[key |-> StaticKey(T), T |-> T] : T \in Types}
        \cup {[key |-> DynamicKey("k1"), T |-> T] : T \in Types}

\* The instances calls are made through: two StaticBindable[State] (the
\* second is the conductor's contextBinder), a StaticBindable[Other], and
\* DynamicBindables whose keyFunc returns "k1" or "k2".
Instances ==
    {[inst |-> "s1", key |-> StaticKey("State"), T |-> "State"],
     [inst |-> "s2", key |-> StaticKey("Other"), T |-> "Other"],
     [inst |-> "d1", key |-> DynamicKey("k1"), T |-> "State"],
     [inst |-> "d2", key |-> DynamicKey("k1"), T |-> "Other"],
     [inst |-> "d3", key |-> DynamicKey("k2"), T |-> "State"]}

BindKeys == {b.key : b \in Instances}

\* The *T values a caller binds: pointers to distinct objects and the nil
\* pointer.
ValuesOf(T) ==
    {[type |-> T, ref |-> x] :
        x \in (IF T = "State" THEN Runs ELSE {"o1"}) \cup {"nil"}}

\* A key of the caller's own, not one of a bindable.
PlainKey == [kind |-> "plain", id |-> "trace"]

\* Nothing has been bound, looked up or unbound yet.  att is the history:
\* the value last bound under each key and not unbound since.
NoBinding ==
    [ctx |-> EmptyCtx, att |-> [k \in BindKeys |-> UntypedNil],
     by |-> [k \in BindKeys |-> "none"], n |-> 0,
     op |-> "none", inst |-> "none", key |-> PlainKey, T |-> "nil", arg |-> UntypedNil,
     had |-> UntypedNil, hadBy |-> "none", in |-> EmptyCtx, out |-> EmptyCtx, val |-> Nil,
     err |-> NoErr, prevOp |-> "none", prevKey |-> PlainKey]

\* No invocation has been made for the comparison yet.
NoTwin ==
    [phase |-> 0, store |-> <<>>, rv |-> 0, parent |-> Nil, bound |-> FALSE,
     states |-> <<>>, first |-> NoFrame]

\* The branches of a program that derive contexts from a common parent.
Branches == {"left", "right"}

\* No context has been derived from context.Background() yet.  heap holds
\* the derived contexts, each with its parent (0: Background); at is the
\* context each branch holds; own is the history: the value each branch
\* last saw bound under each key and not unbound since.
NoFork ==
    [heap |-> <<>>, at |-> [br \in Branches |-> 0],
     own |-> [br \in Branches |-> [k \in BindKeys |-> UntypedNil]], n |-> 0]

\* The goroutines that share one State, and the metav1.Condition values
\* they pass: the two of the test, told apart by the caller and the call.
Goroutines == {"g1", "g2", "g3"}

ConditionOf(g, i, type) ==
    [Type |-> type, Status |-> IF type = "Ready" THEN "True" ELSE "False",
     Reason |-> <<g, i>>, Message |-> ""]

\* No goroutine has called a method of the State yet.
NoAdder ==
    [mutex |-> "free", state |-> NewState,
     pc |-> [g \in Goroutines |-> "idle"],
     local |-> [g \in Goroutines |-> <<>>],
     arg |-> [g \in Goroutines |-> Nil],
     adds |-> [g \in Goroutines |-> 0],
     calls |-> [g \in Goroutines |-> 0],
     engine |-> [pc |-> "loop", reads |-> <<>>]]

InitCommon ==
    /\ binding = NoBinding
    /\ fork = NoFork
    /\ twin = NoTwin
    /\ adder = NoAdder
    /\ extWrites = 0
    /\ dparent = Nil
    /\ runState = [r \in Runs |-> NewState]
    /\ cd = [r \in Runs |-> IdleConduct]
    /\ rc = [r \in Runs |-> NoFrame]
    /\ gh = [r \in Runs |-> [foreign |-> FALSE, n |-> 0, log |-> <<>>, prev |-> "none",
                              seq |-> <<>>]]

EmptyStore == [k \in Keys |-> Absent]

\* One step, any configuration, invoked directly; the store is empty or
\* holds a child written earlier.
InitStep ==
    /\ InitCommon
    /\ \E c \in SimpleConfigs : steps = [n \in StepNames |-> c]
    /\ reconcilers = <<>>
    /\ handler = FALSE
    /\ \/ store = EmptyStore /\ rvCounter = 0
       \/ \E child \in {StoredChild(1, 0, "web"), StoredChild(2, 1, NoOwner)} :
            /\ store = [EmptyStore EXCEPT ![ExtKey] = child]
            /\ rvCounter = 1

\* -------------------------------------------------------- the Conductor
\* shouldReturn as it would be if it overlooked RequeueAfter.
shouldReturnNoAfter(result, e) == e # NoErr \/ result.Requeue

\* shouldReturn as it would be if it stopped the run on errors only.
shouldReturnErrOnly(result, e) == e # NoErr

\* shouldReturn
shouldReturn(result, e) == e # NoErr \/ result.Requeue \/ result.RequeueAfter > 0

\* What a reconciler that is not a simple.Reconciler may return.
CustomResults == {Idle, RequeueNow, [Requeue |-> FALSE, RequeueAfter |-> 1]}

\* A step that is some other api.Reconciler: it returns what it likes and
\* may add a condition of its own to the Run State.
CustomConfig ==
    [Kind |-> "custom", ShouldDeleteFn |-> FALSE, ChildKeyFn |-> FALSE,
     PredicateFn |-> "nil", NoReference |-> FALSE, DryRunType |-> "none",
     CompareOpts |-> {}, PreUpdateFn |-> "nil", ReconcileFn |-> "match"]

\* FromReconcileFunc as it would be if it set no PredicateFn.
FromReconcileFuncNoPredicate ==
    [Kind |-> "simple", ShouldDeleteFn |-> FALSE, ChildKeyFn |-> FALSE,
     PredicateFn |-> "nil", NoReference |-> FALSE,
     DryRunType |-> "warn", CompareOpts |-> {}, PreUpdateFn |-> "nil",
     ReconcileFn |-> "match"]

\* simple.FromReconcileFunc(fn).Build()
FromReconcileFunc ==
    [Kind |-> "simple", ShouldDeleteFn |-> FALSE, ChildKeyFn |-> FALSE,
     PredicateFn |-> "IsNotMarkedForDeletion", NoReference |-> FALSE,
     DryRunType |-> "warn", CompareOpts |-> {}, PreUpdateFn |-> "nil",
     ReconcileFn |-> "match"]

\* simple.FromReconcileFunc(fn).WithChildKeyFn(..).WithShouldDeleteFn(..)
\*     .WithDryRunType(reconciler.DryRunNone).Build()
WithShouldDeleteFn ==
    [FromReconcileFunc EXCEPT !.ShouldDeleteFn = TRUE, !.ChildKeyFn = TRUE,
                              !.DryRunType = "none"]

\* The parents Conduct is called with.
ConductParents == {p \in ParentsNamed(ParentNames) : p.spec = 1}

\* Conductor.Register, before the Conductor is put to use
Register(name) ==
    /\ \A r \in Runs : gh[r].n = 0
    /\ Len(reconcilers) < MaxSteps
    /\ \A i \in 1..Len(reconcilers) : reconcilers[i] # name
    /\ reconcilers' = Append(reconcilers, name)
    /\ UNCHANGED <<store, rvCounter, extWrites, steps, handler, dparent,
                   runState, cd, rc, gh>>
    /\ UNCHANGED <<binding, adder, fork, twin>>

\* Conduct(ctx, parent) up to the loop: the new State, BindState, d.parent.
\* The caller's context is empty or one a Run State is already bound in.
ConductWith(r, parents) ==
    /\ cd[r].pc \in {"idle", "done"}
    /\ rc[r].pc \in {"none", "ret"}
    /\ gh[r].n < MaxInv
    /\ reconcilers # <<>>
    /\ \E p \in parents,
          ctx \in {EmptyCtx} \cup {runState[q].ctx : q \in {q \in Runs : runState[q].ctx # NilCtx}} :
         LET b == BindState(ctx, r) IN
         IF b.err # NoErr
         THEN /\ cd' = [cd EXCEPT ![r] = [IdleConduct EXCEPT !.pc = "done", !.parent = p,
                                              !.ctx = ctx, !.err = b.err]]
              /\ UNCHANGED <<runState, dparent>>
         ELSE /\ cd' = [cd EXCEPT ![r] = [IdleConduct EXCEPT !.pc = "loop", !.parent = p,
                                              !.ctx = ctx, !.idx = 1]]
              /\ runState' = [runState EXCEPT ![r] = b.state]
              /\ dparent' = p
    /\ gh' = [gh EXCEPT ![r].n = @ + 1, ![r].log = <<>>]
    /\ rc' = [rc EXCEPT ![r] = NoFrame]
    /\ UNCHANGED <<store, rvCounter, extWrites, steps, reconcilers, handler>>
    /\ UNCHANGED <<binding, adder, fork, twin>>

\* Conduct(ctx, parent), for any parent
Conduct(r) == ConductWith(r, ConductParents)

\* state.ctx as it would be if Conduct kept the context BindState returned
\* instead of reading it from the State.
StateCtxAsBound(r) == BindState(cd[r].ctx, r).ctx

\* state.ctx, as Conduct reads it for each step and for the handler
StateCtx(r) == runState[r].ctx

\* d.Reconcile(state.ctx, reconciler): reconciler.Reconcile(ctx, d.client, d.parent)
Invoke(r) ==
    LET f == cd[r] IN
    /\ f.pc = "loop"
    /\ f.idx <= Len(reconcilers)
    /\ LET name == reconcilers[f.idx] IN
       /\ rc' = [rc EXCEPT ![r] =
                    IF steps[name].Kind = "custom"
                    THEN [EnterReconcile(name, dparent, StateCtx(r), "conduct")
                             EXCEPT !.pc = "custom"]
                    ELSE EnterReconcile(name, dparent, StateCtx(r), "conduct")]
       /\ gh' = Remember(r, name, dparent)
       /\ cd' = [cd EXCEPT ![r] = [f EXCEPT !.pc = "step",
                                            !.invoked = Append(@, name),
                                            !.mark = Len(runState[r].Conditions)]]
    /\ UNCHANGED <<store, rvCounter, extWrites, steps, reconcilers, handler,
                   dparent, runState>>
    /\ UNCHANGED <<binding, adder, fork, twin>>

\* The Reconcile of a step that is not a simple.Reconciler
Custom(r) ==
    LET f == rc[r] IN
    /\ f.pc = "custom"
    /\ \E result \in CustomResults, e \in {NoErr, "CustomError"}, add \in BOOLEAN :
         LET fs == FetchState(f.ctx)
             cond == [Type |-> <<f.step, "Custom">>, Status |-> "True",
                      Reason |-> "Custom", Message |-> e] IN
         /\ rc' = [rc EXCEPT ![r] = [f EXCEPT !.pc = "ret", !.result = result, !.err = e]]
         /\ runState' =
              IF add /\ fs.err = NoErr
              THEN [runState EXCEPT ![fs.val.ref] = AddCondition(@, cond)]
              ELSE runState
         /\ gh' = IF add /\ fs.err = NoErr
                  THEN [gh EXCEPT ![r].log = Append(@, cond)] ELSE gh
    /\ UNCHANGED <<store, rvCounter, extWrites, steps, reconcilers, handler,
                   dparent, cd>>
    /\ UNCHANGED <<binding, adder, fork, twin>>

\* if result, err := d.Reconcile(...); shouldReturn(result, err) { return result, err }
Return(r) ==
    LET f == cd[r] IN
    /\ f.pc = "step"
    /\ rc[r].pc = "ret"
    /\ cd' = [cd EXCEPT ![r] =
                 LET g == [f EXCEPT !.returned =
                              Append(@, [result |-> rc[r].result, err |-> rc[r].err])] IN
                 IF shouldReturn(rc[r].result, rc[r].err)
                 THEN [g EXCEPT !.pc = "done", !.result = rc[r].result, !.err = rc[r].err]
                 ELSE [g EXCEPT !.pc = "loop", !.idx = @ + 1]]
    /\ UNCHANGED <<store, rvCounter, extWrites, steps, reconcilers, handler,
                   dparent, runState, rc, gh>>
    /\ UNCHANGED <<binding, adder, fork, twin>>

\* What Conduct returns after the handler as it would be if the handler's
\* error was dropped.
AfterHandlerSwallowed(e) == [result |-> Idle, err |-> NoErr]

\* What Conduct returns after the handler returned e: the error with
\* reconcile.Result{}, or reconcile.Result{} and nil
AfterHandler(e) == [result |-> Idle, err |-> e]

\* After the loop: d.conditionsHandler(state.ctx, d.client, parent, state.Conditions)
Handler(r) ==
    LET f == cd[r] IN
    /\ f.pc = "loop"
    /\ f.idx > Len(reconcilers)
    /\ IF handler
       THEN \E e \in {NoErr, "HandlerError"} :
              cd' = [cd EXCEPT ![r] =
                        [f EXCEPT !.pc = "done", !.result = AfterHandler(e).result,
                                  !.err = AfterHandler(e).err,
                                  !.handled = Append(@, [ctx |-> StateCtx(r),
                                                         parent |-> f.parent,
                                                         conditions |-> runState[r].Conditions,
                                                         err |-> e])]]
       ELSE cd' = [cd EXCEPT ![r] = [f EXCEPT !.pc = "done", !.result = Idle, !.err = NoErr]]
    /\ UNCHANGED <<store, rvCounter, extWrites, steps, reconcilers, handler,
                   dparent, runState, rc, gh>>
    /\ UNCHANGED <<binding, adder, fork, twin>>

\* A Conductor with or without a conditions handler; its steps are simple
\* reconcilers as FromReconcileFunc builds them, or other reconcilers.
Init ==
    /\ InitCommon
    /\ steps \in [StepNames -> {FromReconcileFunc, WithShouldDeleteFn, CustomConfig}]
    /\ reconcilers = <<>>
    /\ handler \in BOOLEAN
    /\ store = EmptyStore
    /\ rvCounter = 0

StepAction(r) ==
    \/ Precheck(r)
    \/ Delete(r)
    \/ Compute(r)
    \/ Fetch(r)
    \/ Create(r)
    \/ DryRunDesired(r)
    \/ DryRunCurrent(r)
    \/ Update(r)

NextStep ==
    \/ \E r \in Sequential : DirectInvoke(r)
    \/ \E r \in Sequential : StepAction(r)
    \/ ExtWrite

SpecStep == InitStep /\ [][NextStep]_vars

Next ==
    \/ \E name \in StepNames : Register(name)
    \/ \E r \in Sequential : Conduct(r)
    \/ \E r \in Sequential : Invoke(r)
    \/ \E r \in Sequential : Custom(r)
    \/ \E r \in Sequential : Return(r)
    \/ \E r \in Sequential : Handler(r)
    \/ \E r \in Sequential : StepAction(r)

Spec == Init /\ [][Next]_vars

\* ----------------------------------------- one invocation, made twice
\* The context of a direct call: with a new State bound, or without any.
DirectCtx(r, bound) == IF bound THEN BindState(EmptyCtx, r).ctx ELSE EmptyCtx

\* A caller invokes step A directly, with or without a Run State bound,
\* and notes the store as it is.
TwinFirst(r) ==
    /\ twin.phase = 0
    /\ rc[r].pc = "none"
    /\ \E p \in ParentsFor(steps["A"], {"web"}), bound \in BOOLEAN :
         /\ rc' = [rc EXCEPT ![r] = EnterReconcile("A", p, DirectCtx(r, bound), "direct")]
         /\ runState' = [runState EXCEPT
                            ![r] = IF bound THEN BindState(EmptyCtx, r).state ELSE @]
         /\ twin' = [twin EXCEPT !.phase = 1, !.store = store, !.rv = rvCounter,
                                 !.parent = p, !.bound = bound, !.states = runState']
    /\ gh' = [gh EXCEPT ![r].n = @ + 1, ![r].log = <<>>]
    /\ UNCHANGED <<store, rvCounter, extWrites, steps, reconcilers, handler,
                   dparent, cd, binding, adder, fork>>

\* The same invocation over again: the same step and parent against the
\* store as it was, this time without a Run State if the first had one,
\* and with one if it had none.
TwinSecond(r) ==
    /\ twin.phase = 1
    /\ rc[r].pc = "ret"
    /\ rc' = [rc EXCEPT ![r] =
                 EnterReconcile("A", twin.parent, DirectCtx(r, ~twin.bound), "direct")]
    /\ runState' = [runState EXCEPT
                       ![r] = IF ~twin.bound THEN BindState(EmptyCtx, r).state ELSE @]
    /\ store' = twin.store
    /\ rvCounter' = twin.rv
    /\ twin' = [twin EXCEPT !.phase = 2, !.bound = ~twin.bound, !.states = runState',
                            !.first = rc[r]]
    /\ gh' = [gh EXCEPT ![r].n = @ + 1, ![r].log = <<>>]
    /\ UNCHANGED <<extWrites, steps, reconcilers, handler, dparent, cd, binding,
                   adder, fork>>

NextTwin ==
    \/ \E r \in Sequential : TwinFirst(r)
    \/ \E r \in Sequential : TwinSecond(r)
    \/ \E r \in Sequential : StepAction(r)

SpecTwin == InitStep /\ [][NextTwin]_vars

\* ------------------------------ one invocation, under warn and under silent
\* The configuration with the other of DryRunWarn and DryRunSilent.
OtherPolicy(c) ==
    [c EXCEPT !.DryRunType = CASE @ = "warn" -> "silent"
                               [] @ = "silent" -> "warn"
                               [] OTHER -> @]

\* Two steps that differ in nothing but the DryRunType, where one has
\* DryRunWarn and the other DryRunSilent.
InitPolicy ==
    /\ InitCommon
    /\ \E c \in SimpleConfigs :
         steps = [n \in StepNames |-> IF n = "B" THEN OtherPolicy(c) ELSE c]
    /\ reconcilers = <<>>
    /\ handler = FALSE
    /\ \/ store = EmptyStore /\ rvCounter = 0
       \/ \E child \in {StoredChild(1, 0, "web"), StoredChild(2, 1, NoOwner)} :
            /\ store = [EmptyStore EXCEPT ![ExtKey] = child]
            /\ rvCounter = 1

\* A caller invokes step A and notes the store as it is.
PolicyFirst(r) ==
    /\ twin.phase = 0
    /\ rc[r].pc = "none"
    /\ \E p \in ParentsFor(steps["A"], {"web"}) :
         /\ rc' = [rc EXCEPT ![r] = EnterReconcile("A", p, EmptyCtx, "direct")]
         /\ twin' = [twin EXCEPT !.phase = 1, !.store = store, !.rv = rvCounter,
                                 !.parent = p, !.states = runState]
    /\ gh' = [gh EXCEPT ![r].n = @ + 1, ![r].log = <<>>]
    /\ UNCHANGED <<store, rvCounter, extWrites, steps, reconcilers, handler,
                   dparent, runState, cd, binding, adder, fork>>

\* The same invocation over again, of step B: the same parent against the
\* store as it was.
PolicySecond(r) ==
    /\ twin.phase = 1
    /\ rc[r].pc = "ret"
    /\ rc' = [rc EXCEPT ![r] = EnterReconcile("B", twin.parent, EmptyCtx, "direct")]
    /\ store' = twin.store
    /\ rvCounter' = twin.rv
    /\ twin' = [twin EXCEPT !.phase = 2, !.first = rc[r]]
    /\ gh' = [gh EXCEPT ![r].n = @ + 1, ![r].log = <<>>]
    /\ UNCHANGED <<extWrites, steps, reconcilers, handler, dparent, runState, cd,
                   binding, adder, fork>>

NextPolicy ==
    \/ \E r \in Sequential : PolicyFirst(r)
    \/ \E r \in Sequential : PolicySecond(r)
    \/ \E r \in Sequential : StepAction(r)

SpecPolicy == InitPolicy /\ [][NextPolicy]_vars

\* ------------------------------------ one step, invoked again and again
\* Invocations one caller makes of the step, one after the other.
MaxRounds == 4

\* What an invocation that returned leaves behind for the history.
Done(f) == [out |-> Outcome(f), result |-> f.result]

\* The caller invokes step A with some parent; each time the invocation
\* returned without error it invokes the step again with the same parent:
\* at once when the result asks for a requeue, or later for another reason.
Reinvoke(r) ==
    /\ rc[r].pc \in {"none", "ret"}
    /\ rc[r].err = NoErr
    /\ gh[r].n < MaxRounds
    /\ \E p \in ParentsFor(steps["A"], {"web"}) :
         /\ rc[r].pc = "ret" => p = rc[r].parent
         /\ rc' = [rc EXCEPT ![r] = EnterReconcile("A", p, EmptyCtx, "direct")]
    /\ gh' = [gh EXCEPT ![r].n = @ + 1,
                        ![r].seq = IF rc[r].pc = "ret" THEN Append(@, Done(rc[r])) ELSE @]
    /\ UNCHANGED <<store, rvCounter, extWrites, steps, reconcilers, handler,
                   dparent, runState, cd>>
    /\ UNCHANGED <<binding, adder, fork, twin>>

\* One step with DryRunWarn or DryRunSilent; the store is empty or holds a
\* child written earlier.
InitConverge ==
    /\ InitCommon
    /\ \E c \in {x \in SimpleConfigs : x.DryRunType # "none"} :
         steps = [n \in StepNames |-> c]
    /\ reconcilers = <<>>
    /\ handler = FALSE
    /\ \/ store = EmptyStore /\ rvCounter = 0
       \/ \E child \in {StoredChild(1, 0, "web"), StoredChild(2, 1, NoOwner)} :
            /\ store = [EmptyStore EXCEPT ![ExtKey] = child]
            /\ rvCounter = 1

NextConverge ==
    \/ \E r \in Sequential : Reinvoke(r)
    \/ \E r \in Sequential : StepAction(r)

SpecConverge == InitConverge /\ [][NextConverge]_vars

\* --------------------------------------- two runs after the same child
\* Two callers invoke the same step for parents of the same name, so that
\* both work on the same child, while another writer may change it too.
\* The step has no pre-check and no predicate.
InitRivals ==
    /\ InitCommon
    /\ \E c \in {x \in SimpleConfigs :
                    /\ ~x.ShouldDeleteFn /\ ~x.ChildKeyFn /\ x.PredicateFn = "nil"
                    /\ x.NoReference /\ x.CompareOpts = {}
                    /\ x.PreUpdateFn = "nil"} :
         steps = [n \in StepNames |-> c]
    /\ reconcilers = <<>>
    /\ handler = FALSE
    /\ \/ store = EmptyStore /\ rvCounter = 0
       \/ \E child \in {StoredChild(1, 0, "web"), StoredChild(2, 1, NoOwner)} :
            /\ store = [EmptyStore EXCEPT ![ExtKey] = child]
            /\ rvCounter = 1

\* Each caller invokes step A once.
RivalInvoke(r) ==
    /\ rc[r].pc = "none"
    /\ \E p \in ParentsFor(steps["A"], {"web"}) :
         rc' = [rc EXCEPT ![r] = EnterReconcile("A", p, EmptyCtx, "direct")]
    /\ gh' = [gh EXCEPT ![r].n = @ + 1]
    /\ UNCHANGED <<store, rvCounter, extWrites, steps, reconcilers, handler,
                   dparent, runState, cd>>
    /\ UNCHANGED <<binding, adder, fork, twin>>

NextRivals ==
    \/ \E r \in Runs : RivalInvoke(r)
    \/ \E r \in Runs : Compute(r)
    \/ \E r \in Runs : Fetch(r)
    \/ \E r \in Runs : Create(r)
    \/ \E r \in Runs : DryRunDesired(r)
    \/ \E r \in Runs : DryRunCurrent(r)
    \/ \E r \in Runs : Update(r)
    \/ ExtWrite

SpecRivals == InitRivals /\ [][NextRivals]_vars

\* ------------------------------------- steps that rebind the context
\* The Reconcile of a step that binds data of its own into the context, as
\* the README's MyReconciler does with a StaticBindable or a
\* DynamicBindable, and then registers the derived context with the Run
\* State (state.UpdateContext(ctx)), or does not.
CustomRebind(r) ==
    LET f == rc[r] IN
    /\ f.pc = "custom"
    /\ \E result \in CustomResults, b \in {x \in Instances : x.T = "Other"},
          register \in BOOLEAN :
         LET data == [type |-> "Other", ref |-> f.step]
             bound == BindToContext(f.ctx, b.key, data)
             fs == FetchState(bound.ctx)
         IN IF bound.err # NoErr
            THEN /\ rc' = [rc EXCEPT ![r] = [f EXCEPT !.pc = "ret", !.result = Idle,
                                                     !.err = bound.err]]
                 /\ UNCHANGED <<runState, cd>>
            ELSE /\ rc' = [rc EXCEPT ![r] = [f EXCEPT !.pc = "ret", !.result = result,
                                                     !.err = NoErr]]
                 /\ runState' =
                      IF register /\ fs.err = NoErr
                      THEN [runState EXCEPT ![fs.val.ref] = UpdateContext(@, bound.ctx)]
                      ELSE runState
                 /\ cd' = [cd EXCEPT ![r].derived =
                              Append(@, [pos |-> Len(cd[r].invoked), key |-> b.key,
                                         val |-> data, ctx |-> bound.ctx,
                                         registered |-> register])]
    /\ UNCHANGED <<store, rvCounter, extWrites, steps, reconcilers, handler,
                   dparent, gh>>
    /\ UNCHANGED <<binding, adder, fork, twin>>

\* A Conductor with three registered steps, none of them a simple
\* reconciler, and a conditions handler.
InitRebind ==
    /\ InitCommon
    /\ steps = [n \in StepNames |-> CustomConfig]
    /\ reconcilers = <<"A", "B", "C">>
    /\ handler = TRUE
    /\ store = EmptyStore
    /\ rvCounter = 0

NextRebind ==
    \/ \E r \in Sequential : Conduct(r)
    \/ \E r \in Sequential : Invoke(r)
    \/ \E r \in Sequential : CustomRebind(r)
    \/ \E r \in Sequential : Return(r)
    \/ \E r \in Sequential : Handler(r)

SpecRebind == InitRebind /\ [][NextRebind]_vars

\* ------------------------------------------------- concurrent Conduct calls
\* Two goroutines call Conduct on one Conductor, each for a parent of its
\* own, as a controller with several workers does.
ParentsOf(r) ==
    {p \in ConductParents :
        IF r = "r1" THEN p.name = "web" /\ ~p.deleting
                    ELSE p.name = "db" /\ ~p.gone}

ConductOwn(r) == ConductWith(r, ParentsOf(r))

\* A Conductor with two registered steps and a conditions handler.
InitPar ==
    /\ InitCommon
    /\ steps \in {st \in [StepNames -> {FromReconcileFunc, WithShouldDeleteFn,
                                         CustomConfig}] :
                     /\ st["A"] # WithShouldDeleteFn
                     /\ st["B"] = WithShouldDeleteFn
                     /\ st["C"] = CustomConfig}
    /\ reconcilers = <<"A", "B">>
    /\ handler = TRUE
    /\ store = EmptyStore
    /\ rvCounter = 0

NextPar ==
    \/ \E r \in Runs : ConductOwn(r)
    \/ \E r \in Runs : Invoke(r)
    \/ \E r \in Runs : Custom(r)
    \/ \E r \in Runs : Return(r)
    \/ \E r \in Runs : Handler(r)
    \/ \E r \in Runs : StepAction(r)

SpecPar == InitPar /\ [][NextPar]_vars

\* ------------------------------------------- concurrent calls on one State
\* Calls of AddCondition and UpdateContext each goroutine makes.
MaxAdds == 2

\* The mutex as it would be if Lock never waited.
MutexAlwaysFree(m) == TRUE

\* s.Lock() returns once no goroutine holds the mutex
MutexFree(m) == m = "free"

\* AddCondition: s.Lock()
Lock(g) ==
    /\ adder.pc[g] = "idle"
    /\ adder.calls[g] < MaxAdds
    /\ MutexFree(adder.mutex)
    /\ \E type \in {"Ready", "Synced"} :
         adder' = [adder EXCEPT !.mutex = g, !.pc[g] = "locked",
                                !.arg[g] = ConditionOf(g, adder.adds[g] + 1, type)]
    /\ UNCHANGED <<store, rvCounter, extWrites, steps, reconcilers, handler,
                   dparent, runState, cd, rc, gh, binding, fork, twin>>

\* AddCondition: append(s.Conditions, condition) reads the slice
Load(g) ==
    /\ adder.pc[g] = "locked"
    /\ adder' = [adder EXCEPT !.pc[g] = "loaded", !.local[g] = adder.state.Conditions]
    /\ UNCHANGED <<store, rvCounter, extWrites, steps, reconcilers, handler,
                   dparent, runState, cd, rc, gh, binding, fork, twin>>

\* AddCondition: s.Conditions = the slice read, with the condition appended
Store(g) ==
    /\ adder.pc[g] = "loaded"
    /\ adder' = [adder EXCEPT
                    !.pc[g] = "stored",
                    !.state = AddCondition([@ EXCEPT !.Conditions = adder.local[g]],
                                           adder.arg[g])]
    /\ UNCHANGED <<store, rvCounter, extWrites, steps, reconcilers, handler,
                   dparent, runState, cd, rc, gh, binding, fork, twin>>

\* AddCondition: the deferred s.Unlock(); the call returns
Unlock(g) ==
    /\ adder.pc[g] = "stored"
    /\ adder' = [adder EXCEPT !.pc[g] = "idle", !.calls[g] = @ + 1,
                              !.adds[g] = @ + 1,
                              !.mutex = IF @ = g THEN "free" ELSE @]
    /\ UNCHANGED <<store, rvCounter, extWrites, steps, reconcilers, handler,
                   dparent, runState, cd, rc, gh, binding, fork, twin>>

\* UpdateContext, whole: Lock, s.ctx = ctx, Unlock
Rebind(g) ==
    /\ adder.pc[g] = "idle"
    /\ adder.calls[g] < MaxAdds
    /\ MutexFree(adder.mutex)
    /\ \E ctx \in {EmptyCtx, NilCtx} :
         /\ ctx # adder.state.ctx
         /\ adder' = [adder EXCEPT !.state = UpdateContext(@, ctx),
                                   !.calls[g] = @ + 1]
    /\ UNCHANGED <<store, rvCounter, extWrites, steps, reconcilers, handler,
                   dparent, runState, cd, rc, gh, binding, fork, twin>>

\* state := &State{}, shared by the goroutines
InitAdd ==
    /\ InitCommon
    /\ steps = [n \in StepNames |-> CustomConfig]
    /\ reconcilers = <<>>
    /\ handler = FALSE
    /\ store = EmptyStore
    /\ rvCounter = 0

NextAdd ==
    \/ \E g \in Goroutines : Lock(g)
    \/ \E g \in Goroutines : Load(g)
    \/ \E g \in Goroutines : Store(g)
    \/ \E g \in Goroutines : Unlock(g)
    \/ \E g \in Goroutines : Rebind(g)

SpecAdd == InitAdd /\ [][NextAdd]_vars

\* ------------------------------ Conduct beside the goroutines of a step
\* The goroutines a step started that go on calling AddCondition and
\* UpdateContext on the run's State while Conduct proceeds.
SubGoroutines == {"g1", "g2"}

\* History: Conduct read a field of the State; which goroutine held the
\* mutex then, and which were inside a call on the State.
Access(field, val) ==
    [field |-> field, val |-> val, holder |-> adder.mutex,
     during |-> {g \in Goroutines : adder.pc[g] \in {"locked", "loaded", "stored"}}]

\* What a read of s.Conditions can return: the slice as it is, or, beside
\* a goroutine about to assign the appended slice, that one.
RacyConditions ==
    {adder.state.Conditions}
        \cup {Append(adder.local[g], adder.arg[g]) :
                 g \in {h \in Goroutines : adder.pc[h] = "loaded"}}

\* d.Reconcile(state.ctx, reconciler): Conduct reads state.ctx for a step
ReadCtx ==
    /\ adder.engine.pc = "loop"
    /\ adder' = [adder EXCEPT
                    !.engine = [pc |-> "handler",
                                reads |-> Append(@.reads, Access("ctx", adder.state.ctx))]]
    /\ UNCHANGED <<store, rvCounter, extWrites, steps, reconcilers, handler,
                   dparent, runState, cd, rc, gh, binding, fork, twin>>

\* d.conditionsHandler(state.ctx, d.client, parent, state.Conditions):
\* Conduct reads state.ctx and state.Conditions for the handler
ReadForHandler ==
    /\ adder.engine.pc = "handler"
    /\ \E conds \in RacyConditions :
         adder' = [adder EXCEPT
                      !.engine = [pc |-> "done",
                                  reads |-> @.reads
                                      \o <<Access("ctx", adder.state.ctx),
                                           Access("Conditions", conds)>>]]
    /\ UNCHANGED <<store, rvCounter, extWrites, steps, reconcilers, handler,
                   dparent, runState, cd, rc, gh, binding, fork, twin>>

NextRace ==
    \/ \E g \in SubGoroutines : Lock(g)
    \/ \E g \in SubGoroutines : Load(g)
    \/ \E g \in SubGoroutines : Store(g)
    \/ \E g \in SubGoroutines : Unlock(g)
    \/ \E g \in SubGoroutines : Rebind(g)
    \/ ReadCtx
    \/ ReadForHandler

SpecRace == InitAdd /\ [][NextRace]_vars

\* ------------------------------------------------ the binder, call by call
\* Calls made on the context and the contexts derived from it.
MaxOps == 4

\* The record of a call: what was asked (op, bindable, argument, the
\* context given), what came back (out, val, err), the context the caller
\* goes on with and the history after the call.
Called(op, b, arg, out, val, err, ctx, att) ==
    [ctx |-> ctx, att |-> att,
     by |-> IF op = "bind" /\ err = NoErr THEN [binding.by EXCEPT ![b.key] = b.inst]
            ELSE IF op = "unbind" THEN [binding.by EXCEPT ![b.key] = "none"]
            ELSE binding.by,
     n |-> binding.n + 1,
     op |-> op, inst |-> b.inst, key |-> b.key, T |-> b.T, arg |-> arg,
     had |-> binding.att[b.key], hadBy |-> binding.by[b.key], in |-> binding.ctx, out |-> out, val |-> val,
     err |-> err, prevOp |-> binding.op, prevKey |-> binding.key]

\* ctx2, err := b.BindToContext(ctx, value); on an error the caller keeps ctx
Bind(b) ==
    /\ binding.n < MaxOps
    /\ \E v \in ValuesOf(b.T) :
         LET res == BindToContext(binding.ctx, b.key, v) IN
         binding' = IF res.err = NoErr
                    THEN Called("bind", b, v, res.ctx, Nil, NoErr, res.ctx,
                                [binding.att EXCEPT ![b.key] = v])
                    ELSE Called("bind", b, v, res.ctx, Nil, res.err, binding.ctx,
                                binding.att)
    /\ UNCHANGED <<store, rvCounter, extWrites, steps, reconcilers, handler,
                   dparent, runState, cd, rc, gh, adder, fork, twin>>

\* ctx = b.Unbind(ctx)
Release(b) ==
    /\ binding.n < MaxOps
    /\ LET out == Unbind(binding.ctx, b.key) IN
       binding' = Called("unbind", b, UntypedNil, out, Nil, NoErr, out,
                         [binding.att EXCEPT ![b.key] = UntypedNil])
    /\ UNCHANGED <<store, rvCounter, extWrites, steps, reconcilers, handler,
                   dparent, runState, cd, rc, gh, adder, fork, twin>>

\* value, err := b.FromContext(ctx)
Lookup(b) ==
    /\ binding.n < MaxOps
    /\ LET res == FromContext(binding.ctx, b.key, b.T) IN
       binding' = Called("lookup", b, UntypedNil, binding.ctx, res.val, res.err,
                         binding.ctx, binding.att)
    /\ UNCHANGED <<store, rvCounter, extWrites, steps, reconcilers, handler,
                   dparent, runState, cd, rc, gh, adder, fork, twin>>

\* ctx = context.WithValue(ctx, key, x) for a key of the caller's own
WithValue ==
    /\ binding.n < MaxOps
    /\ binding.op # "derive"
    /\ LET out == Append(binding.ctx, [key |-> PlainKey, val |-> [type |-> "string", ref |-> "x"]]) IN
       binding' = [binding EXCEPT !.ctx = out, !.n = @ + 1, !.op = "derive",
                                  !.inst = "none", !.key = PlainKey, !.in = binding.ctx, !.out = out,
                                  !.prevOp = binding.op, !.prevKey = binding.key]
    /\ UNCHANGED <<store, rvCounter, extWrites, steps, reconcilers, handler,
                   dparent, runState, cd, rc, gh, adder, fork, twin>>

\* The bindable behind BindState, FetchState and ClearState
StateBindable == [inst |-> "contextBinder", key |-> contextBinder, T |-> "State"]

\* ctx2, err := conductor.BindState(ctx, state)
BindStateCall ==
    /\ binding.n < MaxOps
    /\ \E r \in Runs :
         LET res == BindState(binding.ctx, r) IN
         binding' = IF res.err = NoErr
                    THEN Called("bind", StateBindable, StatePtr(r), res.ctx, Nil, NoErr,
                                res.ctx, [binding.att EXCEPT ![contextBinder] = StatePtr(r)])
                    ELSE Called("bind", StateBindable, StatePtr(r), res.ctx, Nil, res.err,
                                binding.ctx, binding.att)
    /\ UNCHANGED <<store, rvCounter, extWrites, steps, reconcilers, handler,
                   dparent, runState, cd, rc, gh, adder, fork, twin>>

\* state, err := conductor.FetchState(ctx)
FetchStateCall ==
    /\ binding.n < MaxOps
    /\ LET res == FetchState(binding.ctx) IN
       binding' = Called("lookup", StateBindable, UntypedNil, binding.ctx, res.val,
                         res.err, binding.ctx, binding.att)
    /\ UNCHANGED <<store, rvCounter, extWrites, steps, reconcilers, handler,
                   dparent, runState, cd, rc, gh, adder, fork, twin>>

\* ctx = conductor.ClearState(ctx)
ClearStateCall ==
    /\ binding.n < MaxOps
    /\ LET out == ClearState(binding.ctx) IN
       binding' = Called("unbind", StateBindable, UntypedNil, out, Nil, NoErr, out,
                         [binding.att EXCEPT ![contextBinder] = UntypedNil])
    /\ UNCHANGED <<store, rvCounter, extWrites, steps, reconcilers, handler,
                   dparent, runState, cd, rc, gh, adder, fork, twin>>

\* ctx := context.Background()
InitBind ==
    /\ InitCommon
    /\ steps = [n \in StepNames |-> CustomConfig]
    /\ reconcilers = <<>>
    /\ handler = FALSE
    /\ store = EmptyStore
    /\ rvCounter = 0

NextBind ==
    \/ \E b \in Instances : Bind(b)
    \/ \E b \in Instances : Release(b)
    \/ \E b \in Instances : Lookup(b)
    \/ WithValue
    \/ BindStateCall
    \/ FetchStateCall
    \/ ClearStateCall

SpecBind == InitBind /\ [][NextBind]_vars

\* ----------------------------------------- the binder, on sibling contexts
\* Calls made by the branches together.
MaxFork == 4

\* The chain of pairs of context id: those of its parent and its own.
RECURSIVE ChainOf(_, _)
ChainOf(heap, id) ==
    IF id = 0 THEN EmptyCtx
    ELSE Append(ChainOf(heap, heap[id].parent),
                [key |-> heap[id].key, val |-> heap[id].val])

\* context.WithValue as it would be if it stored the pair in the context
\* it was given.
DerivedInPlace(heap, id, pair, by) ==
    IF id = 0
    THEN [heap |-> Append(heap, [parent |-> 0, key |-> pair.key, val |-> pair.val,
                                 by |-> by]),
          id |-> Len(heap) + 1]
    ELSE [heap |-> [heap EXCEPT ![id].key = pair.key, ![id].val = pair.val],
          id |-> id]

\* context.WithValue(parent, key, val): a new context that points to its
\* parent; `by` notes the branch that derived it.
Derived(heap, id, pair, by) ==
    [heap |-> Append(heap, [parent |-> id, key |-> pair.key, val |-> pair.val,
                            by |-> by]),
     id |-> Len(heap) + 1]

\* Before the branches part: ctx, _ = b.BindToContext(context.Background(), v),
\* and both branches start from ctx.
Trunk(b) ==
    /\ fork.heap = <<>>
    /\ fork.n = 0
    /\ \E v \in ValuesOf(b.T) :
         LET res == BindToContext(EmptyCtx, b.key, v)
             d == Derived(fork.heap, 0, res.ctx[Len(res.ctx)], "trunk") IN
         fork' = [heap |-> d.heap, at |-> [br \in Branches |-> d.id],
                  own |-> [br \in Branches |-> [fork.own[br] EXCEPT ![b.key] = v]],
                  n |-> 1]
    /\ UNCHANGED <<store, rvCounter, extWrites, steps, reconcilers, handler,
                   dparent, runState, cd, rc, gh, binding, adder, twin>>

\* A branch: ctx2, err := b.BindToContext(ctx, value); on an error it keeps ctx
ForkBind(br, b) ==
    /\ fork.n < MaxFork
    /\ \E v \in ValuesOf(b.T) :
         LET res == BindToContext(ChainOf(fork.heap, fork.at[br]), b.key, v) IN
         IF res.err # NoErr
         THEN fork' = [fork EXCEPT !.n = @ + 1]
         ELSE LET d == Derived(fork.heap, fork.at[br], res.ctx[Len(res.ctx)], br) IN
              fork' = [fork EXCEPT !.heap = d.heap, !.at[br] = d.id,
                                   !.own[br][b.key] = v, !.n = @ + 1]
    /\ UNCHANGED <<store, rvCounter, extWrites, steps, reconcilers, handler,
                   dparent, runState, cd, rc, gh, binding, adder, twin>>

\* A branch: ctx = b.Unbind(ctx)
ForkUnbind(br, b) ==
    /\ fork.n < MaxFork
    /\ LET out == Unbind(ChainOf(fork.heap, fork.at[br]), b.key)
           d == Derived(fork.heap, fork.at[br], out[Len(out)], br) IN
       fork' = [fork EXCEPT !.heap = d.heap, !.at[br] = d.id,
                            !.own[br][b.key] = UntypedNil, !.n = @ + 1]
    /\ UNCHANGED <<store, rvCounter, extWrites, steps, reconcilers, handler,
                   dparent, runState, cd, rc, gh, binding, adder, twin>>

InitFork ==
    /\ InitCommon
    /\ steps = [n \in StepNames |-> CustomConfig]
    /\ reconcilers = <<>>
    /\ handler = FALSE
    /\ store = EmptyStore
    /\ rvCounter = 0

NextFork ==
    \/ \E b \in Bindables : Trunk(b)
    \/ \E br \in Branches, b \in Bindables : ForkBind(br, b)
    \/ \E br \in Branches, b \in Bindables : ForkUnbind(br, b)

SpecFork == InitFork /\ [][NextFork]_vars

\* ------------------------------------------------------------ properties
\* A returned (result, err) that asks for a requeue or carries an error.
Stops(o) == o.err # NoErr \/ o.result.Requeue \/ o.result.RequeueAfter > 0

\* Every registered step of the run has returned idle with no error.
AllIdle(f) ==
    /\ Len(f.returned) = Len(reconcilers)
    /\ \A i \in 1..Len(f.returned) : f.returned[i] = [result |-> Idle, err |-> NoErr]

\* C1 (short-circuit).  Once a step of a run has returned a result asking
\* for a requeue (Requeue, or RequeueAfter > 0) or an error, it is the last
\* step invoked in that run, the status callback is not invoked in that run,
\* and Conduct has returned exactly that step's result and error.
C1_ShortCircuit ==
    \A r \in Runs :
        LET f == cd[r] IN
        \A i \in 1..Len(f.returned) :
            Stops(f.returned[i]) =>
                /\ i = Len(f.returned)
                /\ Len(f.invoked) = i
                /\ f.handled = <<>>
                /\ f.pc = "done"
                /\ f.result = f.returned[i].result
                /\ f.err = f.returned[i].err

\* A run of three registered steps, with a status callback configured, that
\* the second step stopped by asking for a requeue after a delay.
C1_Witness ==
    \E r \in Runs :
        LET f == cd[r] IN
        /\ handler /\ Len(reconcilers) = 3
        /\ f.pc = "done" /\ Len(f.returned) = 2
        /\ f.returned[2] = [result |-> [Requeue |-> FALSE, RequeueAfter |-> 1],
                            err |-> NoErr]

\* C2 (status callback).  The status callback is invoked at most once in a
\* run, and only after the last registered step has returned; when every
\* registered step returned idle with no error and a callback is configured,
\* the finished run has invoked it exactly once, with all the outcome
\* records appended during the run in insertion order, and Conduct returned
\* idle (with the callback's error, if it had one).
C2_CallbackOnce ==
    \A r \in Runs :
        LET f == cd[r] IN
        /\ Len(f.handled) <= 1
        /\ f.handled # <<>> =>
              /\ Len(f.returned) = Len(reconcilers)
              /\ Len(f.invoked) = Len(reconcilers)
        /\ (f.pc = "done" /\ handler /\ AllIdle(f)) =>
              /\ Len(f.handled) = 1
              /\ f.handled[1].conditions = gh[r].log
              /\ f.result = Idle
              /\ f.err = f.handled[1].err

\* A finished run of three idle steps whose callback received at least two
\* outcome records.
C2_Witness ==
    \E r \in Runs :
        LET f == cd[r] IN
        /\ handler /\ Len(reconcilers) = 3
        /\ f.pc = "done" /\ AllIdle(f)
        /\ Len(f.handled) = 1
        /\ Len(f.handled[1].conditions) >= 2

\* The store calls of an invocation, by operation, in the order issued.
Ops(f) == [i \in 1..Len(f.calls) |-> f.calls[i].op]

\* The write calls among them: everything but the gets.
IsWrite(op) == op # "get"
Writes(f) == SelectSeq(Ops(f), IsWrite)

\* The invocation issued a call of this operation.
Issued(f, op) == \E i \in 1..Len(f.calls) : f.calls[i].op = op

\* The invocation of run r has returned.
Returned(r) == rc[r].pc = "ret"

\* The invocation of run r follows one of the same step for the same parent
\* that created the child, and nobody else has written since that one began.
SecondAfterCreate(r) == Returned(r) /\ gh[r].prev = "CREATE" /\ ~gh[r].foreign

\* ShouldDeleteFn is configured and answers true for the parent.
WantsDelete(f) == Cfg(f).ShouldDeleteFn /\ ShouldDeleteFn(f.parent)

C4_GatedNoStoreCalls ==
    \A r \in Runs :
        LET f == rc[r]
            c == Cfg(f) IN
        (Returned(r) /\ c.PredicateFn # "nil" /\ ~PredicateFn(c, f.parent)) =>
            /\ f.calls = <<>>
            /\ f.result = Idle /\ f.err = NoErr

\* C4, amended.  An invocation whose PredicateFn answers false issues no
\* create, no update and no dry-run apply.  Without a ShouldDeleteFn it
\* issues no store call at all and returns idle without error; with one,
\* its store calls are those of the pre-check: the get, then the delete if
\* the child was found and ShouldDeleteFn answers true.
C4_GatedOnlyPrecheck ==
    \A r \in Runs :
        LET f == rc[r]
            c == Cfg(f) IN
        (Returned(r) /\ c.PredicateFn # "nil" /\ ~PredicateFn(c, f.parent)) =>
            /\ ~Issued(f, "create") /\ ~Issued(f, "update") /\ ~Issued(f, "dryrun")
            /\ ~c.ShouldDeleteFn =>
                  /\ f.calls = <<>>
                  /\ f.result = Idle /\ f.err = NoErr
            /\ c.ShouldDeleteFn =>
                  /\ Ops(f) \in {<<"get">>, <<"get", "delete">>}
                  /\ Issued(f, "delete") => (f.calls[1].ok /\ ShouldDeleteFn(f.parent))
                  /\ (f.err = NoErr /\ ~Issued(f, "delete")) => f.result = Idle

\* A gated invocation of a step without ShouldDeleteFn that has returned.
C4_Witness ==
    \E r \in Runs :
        LET f == rc[r]
            c == Cfg(f) IN
        /\ Returned(r) /\ c.PredicateFn # "nil" /\ ~PredicateFn(c, f.parent)
        /\ ~c.ShouldDeleteFn
        /\ "PredicateFn" \in f.evals
        /\ f.calls = <<>> /\ f.result = Idle

\* The invocation fetched the current child, copied its tokens onto the
\* desired one, ran PreUpdateFn without error and compared the two.
Compared(f) == f.current # Nil /\ f.desired # Nil /\ f.err # "PreUpdateError"

\* C5 (no spurious update).  Whenever the fetched current child and the
\* desired child (after the token copy and PreUpdateFn) are equal under the
\* configured exclusions, the invocation issues no update and no dry-run
\* apply and returns idle without error.
C5_EqualIsNoop ==
    \A r \in Runs :
        LET f == rc[r]
            c == Cfg(f) IN
        (Returned(r) /\ Compared(f) /\ CmpEqual(f.current, f.desired, c.CompareOpts)) =>
            /\ ~Issued(f, "update")
            /\ ~Issued(f, "dryrun")
            /\ f.result = Idle /\ f.err = NoErr

\* An invocation that found current and desired equal only because the
\* annotations, in which they differ, are excluded.
C5_Witness ==
    \E r \in Runs :
        LET f == rc[r]
            c == Cfg(f) IN
        /\ Returned(r) /\ Compared(f)
        /\ CmpEqual(f.current, f.desired, c.CompareOpts)
        /\ f.current.ann # f.desired.ann
        /\ Ops(f) = <<"get">> /\ f.result = Idle

\* C6 (owner link).  A child written by a successful create of a step
\* without NoReference is passed to the store, and stored, with its owner
\* link naming the parent the invocation was given; a step with NoReference
\* passes every child it creates or updates with the owner link its
\* ReconcileFn gave it.
C6_OwnerLink ==
    \A r \in Runs :
        LET f == rc[r]
            c == Cfg(f) IN
        Returned(r) =>
            \A i \in 1..Len(f.calls) :
                LET call == f.calls[i] IN
                /\ (call.op = "create" /\ call.ok /\ ~c.NoReference) =>
                      /\ call.arg.owner = f.parent.name
                      /\ store[ObjectKeyFromObject(call.arg)] # Absent
                      /\ store[ObjectKeyFromObject(call.arg)].owner = f.parent.name
                /\ (call.op \in {"create", "update"} /\ c.NoReference) =>
                      call.arg.owner = ReconcileFn(c, f.parent).owner

\* An invocation without NoReference whose create succeeded.
C6_Witness ==
    \E r \in Runs :
        LET f == rc[r] IN
        /\ Returned(r) /\ ~Cfg(f).NoReference
        /\ Ops(f) = <<"get", "create">> /\ f.calls[2].ok
        /\ store[ObjectKeyFromObject(f.calls[2].arg)].owner = f.parent.name

\* C7 (delete precedence).  When ShouldDeleteFn is configured and answers
\* true for the parent and the pre-check's get finds the child, the
\* invocation issues exactly one delete, of that child, and nothing else
\* after the get: no create, no update, no dry-run apply; it evaluates
\* neither PredicateFn nor ReconcileFn; and, the delete done, it returns
\* requeue without error.
C7_DeletePrecedence ==
    \A r \in Runs :
        LET f == rc[r] IN
        (/\ Returned(r) /\ WantsDelete(f)
         /\ f.calls # <<>> /\ f.calls[1].op = "get" /\ f.calls[1].ok) =>
            /\ Ops(f) = <<"get", "delete">>
            /\ f.calls[2].arg = ObjectKeyFromObject(ChildKeyFn(f.parent))
            /\ f.evals \cap {"PredicateFn", "ReconcileFn", "PreUpdateFn"} = {}
            /\ f.calls[2].ok => (f.result = RequeueNow /\ f.err = NoErr)
            /\ ~f.calls[2].ok => f.err # NoErr

\* An invocation for a parent marked for deletion, gated by its PredicateFn,
\* that deleted the child.
C7_Witness ==
    \E r \in Runs :
        LET f == rc[r] IN
        /\ Returned(r) /\ WantsDelete(f)
        /\ Cfg(f).PredicateFn # "nil" /\ f.parent.deleting
        /\ Ops(f) = <<"get", "delete">> /\ f.calls[2].ok
        /\ f.result = RequeueNow
        /\ store[ObjectKeyFromObject(ChildKeyFn(f.parent))] = Absent

\* C8 (write exclusivity), as stated.  The write calls of one invocation
\* are exactly one of: none; one create; one update; one delete; two dry-run
\* applies; two dry-run applies and then one update.
C8_WriteShapes ==
    \A r \in Runs :
        Returned(r) =>
            Writes(rc[r]) \in {<<>>, <<"create">>, <<"update">>, <<"delete">>,
                               <<"dryrun", "dryrun">>,
                               <<"dryrun", "dryrun", "update">>}

\* C8, amended.  The write calls of one invocation are one of the above, or
\* one dry-run apply alone, which then is one that failed: the invocation
\* returns after a failed dry-run apply of the desired child.  A create and
\* an update are never both issued, and a delete never with another write.
C8_WriteShapesOrFailedDryRun ==
    \A r \in Runs :
        LET f == rc[r] IN
        Returned(r) =>
            /\ Writes(f) \in {<<>>, <<"create">>, <<"update">>, <<"delete">>,
                              <<"dryrun">>, <<"dryrun", "dryrun">>,
                              <<"dryrun", "dryrun", "update">>}
            /\ Writes(f) = <<"dryrun">> =>
                  /\ ~f.calls[Len(f.calls)].ok
                  /\ f.err # NoErr /\ f.result = Idle

\* An invocation that dry-ran both children and then updated.
C8_Witness ==
    \E r \in Runs :
        LET f == rc[r] IN
        /\ Returned(r)
        /\ Writes(f) = <<"dryrun", "dryrun", "update">>
        /\ f.err = NoErr

\* An invocation changed the store: one of its creates, updates or deletes
\* succeeded.
Wrote(f) ==
    \E i \in 1..Len(f.calls) :
        f.calls[i].ok /\ f.calls[i].op \in {"create", "update", "delete"}

\* C9 (result contract).  An invocation returns a result asking for a
\* requeue, with no error, exactly when a create, update or delete of its
\* own succeeded; an invocation that changed nothing and did not fail
\* returns idle with no error; an invocation that failed returns the idle
\* result together with the error.
C9_ResultContract ==
    \A r \in Runs :
        LET f == rc[r] IN
        Returned(r) =>
            /\ ((f.result.Requeue \/ f.result.RequeueAfter > 0) /\ f.err = NoErr)
                  <=> Wrote(f)
            /\ Wrote(f) => f.result = RequeueNow
            /\ f.err # NoErr => f.result = Idle
            /\ (~Wrote(f) /\ f.err = NoErr) => f.result = Idle

\* An invocation whose update succeeded and that returned requeue.
C9_Witness ==
    \E r \in Runs :
        LET f == rc[r] IN
        /\ Returned(r)
        /\ Ops(f) = <<"get", "update">> /\ f.calls[2].ok
        /\ f.result = RequeueNow /\ f.err = NoErr

\* On the dry-run path the update is issued with the desired child as it
\* was before the dry run, carrying the current child's version token.
UpdateAfterDryRun(f) ==
    \A i \in 3..Len(f.calls) :
        (/\ f.calls[i].op = "update"
         /\ f.calls[i-1].op = "dryrun" /\ f.calls[i-2].op = "dryrun") =>
            /\ f.calls[i].arg = f.calls[i-2].arg
            /\ f.calls[i].arg.rv = f.current.rv
            /\ f.calls[i].arg.uid = f.current.uid
            /\ f.desiredCopy # f.calls[i-2].arg => f.calls[i].arg # f.desiredCopy

\* C10 (dry-run isolation).  On the dry-run path, when the two dry-run
\* results are unequal, the update is issued with the original desired
\* child, carrying the current child's version token, never with the copy
\* the dry run changed; and no dry-run apply changes the store.
C10_DryRunIsolation ==
    /\ [](\A r \in Runs : UpdateAfterDryRun(rc[r]))
    /\ [][\A r \in Runs :
            (rc[r].pc \in {"dryDesired", "dryCurrent"} /\ rc'[r] # rc[r])
                => store' = store]_vars

\* An invocation that updated after two dry runs of which the first changed
\* its copy of the desired child.
C10_Witness ==
    \E r \in Runs :
        LET f == rc[r] IN
        /\ Returned(r)
        /\ Ops(f) = <<"get", "dryrun", "dryrun", "update">> /\ f.calls[4].ok
        /\ f.desiredCopy # f.calls[2].arg
        /\ f.desiredCopy.dflt # f.calls[4].arg.dflt

\* C11 (sequential order).  Within one run the steps are invoked in
\* registration order, each position at most once, one at a time: a step is
\* invoked only when every earlier step of the run has returned idle with
\* no error, and at the moment it is invoked no earlier step has a store
\* call outstanding, so that all their writes are in the store it reads.
C11_SequentialOrder ==
    /\ [](\A r \in Runs :
            LET f == cd[r]
                n == Len(f.invoked)
                k == Len(f.returned) IN
            /\ n <= Len(reconcilers)
            /\ \A i \in 1..n : f.invoked[i] = reconcilers[i]
            /\ k <= n /\ n <= k + 1
            /\ \A i \in 1..(n - 1) : f.returned[i] = [result |-> Idle, err |-> NoErr]
            /\ n = k + 1 => (f.pc = "step" /\ rc[r].step = f.invoked[n]))
    /\ [][\A r \in Runs :
            cd'[r].invoked # cd[r].invoked /\ cd'[r].invoked # <<>> =>
                /\ rc[r].pc \in {"none", "ret"}
                /\ Len(cd'[r].invoked) = Len(cd[r].invoked) + 1
                /\ rc'[r].pc \notin {"none", "ret"}]_vars

\* A run whose third step, a simple reconciler, has issued a store call
\* after two steps that returned idle.
C11_Witness ==
    \E r \in Runs :
        LET f == cd[r] IN
        /\ Len(f.invoked) = 3 /\ Len(f.returned) = 2
        /\ f.pc = "step" /\ rc[r].calls # <<>>
        /\ steps[f.invoked[3]].Kind = "simple"

\* The outcome record a simple reconciler owes for what it returned.
OwedRecord(f) ==
    IF f.err # NoErr
    THEN [Type |-> <<f.step, "Error">>, Message |-> f.err]
    ELSE [Type |-> <<f.step, "Reconciled">>,
          Status |-> IF f.result = Idle THEN "True" ELSE "False"]

\* C12 (outcome record).  With a Run State bound, an invocation of a simple
\* reconciler appends exactly one outcome record, and has done so when it
\* has returned and the Conductor is about to look at its result: after a
\* success the record "<StepName>Reconciled", its status true for an idle
\* result and false for one asking for a requeue; after a failure the record
\* "<StepName>Error" with the error's message.  Before it returns it has
\* appended nothing.
C12_OneRecordPerStep ==
    \A r \in Runs :
        LET f == rc[r]
            recs == runState[r].Conditions
            m == cd[r].mark IN
        (cd[r].pc = "step" /\ steps[f.step].Kind = "simple") =>
            IF f.pc = "ret"
            THEN /\ Len(recs) = m + 1
                 /\ recs[m + 1].Type = OwedRecord(f).Type
                 /\ f.err = NoErr => recs[m + 1].Status = OwedRecord(f).Status
                 /\ f.err # NoErr => recs[m + 1].Message = OwedRecord(f).Message
            ELSE Len(recs) = m

\* A second step that created its child: its record says "Reconciled",
\* status false, and is in the Run State before the Conductor has returned.
C12_Witness ==
    \E r \in Runs :
        LET f == rc[r]
            recs == runState[r].Conditions IN
        /\ cd[r].pc = "step" /\ f.pc = "ret" /\ steps[f.step].Kind = "simple"
        /\ Len(cd[r].invoked) = 2
        /\ f.result = RequeueNow /\ f.err = NoErr
        /\ recs[Len(recs)].Type = <<f.step, "Reconciled">>
        /\ recs[Len(recs)].Status = "False"

\* C13 (failure made visible), as stated.  When a run with a status
\* callback configured has stopped because a step failed, the records of
\* that run, the failing step's "<StepName>Error" among them, have been
\* handed to the status callback.
C13_RecordsReachCallback ==
    \A r \in Runs :
        LET f == cd[r]
            k == Len(f.returned) IN
        (/\ handler /\ f.pc = "done" /\ k > 0 /\ f.returned[k].err # NoErr
         /\ steps[f.invoked[k]].Kind = "simple") =>
            /\ Len(f.handled) = 1
            /\ f.handled[1].conditions = gh[r].log

\* C14 (parent isolation between concurrent runs), as stated.  While a run
\* is inside a step, the parent that step was invoked with is the parent
\* that was passed to the run's own Conduct call.
C14_OwnParent ==
    \A r \in Runs : cd[r].pc = "step" => rc[r].parent = cd[r].parent

\* The Run State of run r has been bound: the run entered its loop.
Bound(r) ==
    \/ cd[r].pc \in {"loop", "step"}
    \/ cd[r].pc = "done" /\ cd[r].invoked # <<>>

\* C15 (Run State isolation).  The Run State of a run is empty when the run
\* enters its loop, and from then on holds exactly the records the run's
\* own step invocations appended, in order; the status callback receives
\* exactly those records.  No record of another run is ever among them.
C15_OwnRecordsOnly ==
    \A r \in Runs :
        /\ Bound(r) => runState[r].Conditions = gh[r].log
        /\ (cd[r].pc = "loop" /\ cd[r].invoked = <<>>) => runState[r].Conditions = <<>>
        /\ \A i \in 1..Len(cd[r].handled) : cd[r].handled[i].conditions = gh[r].log

\* C15 is exercised: two runs are in progress at once, each has appended
\* records, and the two lists differ; one run's callback has been given
\* its records while the other run holds different ones.
C15_Witness ==
    \/ /\ \A r \in Runs : cd[r].pc \in {"loop", "step"} /\ runState[r].Conditions # <<>>
       /\ runState["r1"].Conditions # runState["r2"].Conditions
       /\ gh["r1"].n = 2
    \/ /\ cd["r1"].handled # <<>> /\ cd["r1"].handled[1].conditions # <<>>
       /\ cd["r2"].pc = "step" /\ runState["r2"].Conditions # <<>>
       /\ runState["r2"].Conditions # cd["r1"].handled[1].conditions

\* Records of the shared State that were passed by call i of goroutine g.
Copies(g, i) ==
    {k \in 1..Len(adder.state.Conditions) : adder.state.Conditions[k].Reason = <<g, i>>}

\* C16 (concurrent AddCondition).  The record of every AddCondition call
\* that has returned is in the list exactly once, and whenever no call is
\* in progress the list holds nothing else: after N calls, N records.
C16_NothingLost ==
    /\ \A g \in Goroutines : \A i \in 1..adder.adds[g] : Cardinality(Copies(g, i)) = 1
    /\ (\A g \in Goroutines : adder.pc[g] = "idle") =>
          Len(adder.state.Conditions)
             = adder.adds["g1"] + adder.adds["g2"] + adder.adds["g3"]

\* C16 is exercised: every goroutine has made all its calls, five of them
\* AddCondition calls, and the calls of different goroutines interleaved.
C16_Witness ==
    /\ \A g \in Goroutines : adder.pc[g] = "idle" /\ adder.calls[g] = MaxAdds
    /\ adder.adds["g1"] + adder.adds["g2"] + adder.adds["g3"] = 5
    /\ Len(adder.state.Conditions) = 5
    /\ adder.state.Conditions[1].Reason[1] = adder.state.Conditions[3].Reason[1]
    /\ adder.state.Conditions[1].Reason[1] # adder.state.Conditions[2].Reason[1]

\* s is a prefix of t.
IsPrefix(s, t) == Len(s) <= Len(t) /\ SubSeq(t, 1, Len(s)) = s

\* C17 (append-only records).  As long as a run goes on, every step of the
\* engine leaves the list of the run's State as it was or extends it at the
\* end: the old list is a prefix of the new one.  A new Conduct call starts
\* a new State.
C17_AppendOnly ==
    [][\A r \in Runs :
          gh'[r].n = gh[r].n =>
             IsPrefix(runState[r].Conditions, runState'[r].Conditions)]_vars

\* C17 is exercised: in its second Conduct call a run has seen its list
\* grow three times, once for each step.
C17_Witness ==
    \E r \in Runs :
        /\ gh[r].n = 2 /\ cd[r].pc = "done" /\ Len(cd[r].returned) = 3
        /\ Len(runState[r].Conditions) = 3
        /\ runState[r].Conditions[1] # runState[r].Conditions[2]

\* C18 (bind/lookup round trip).  A lookup through a bindable of type T,
\* on a context in which a value of type T was bound under the bindable's
\* key and not unbound since, returns that very value and no error,
\* whatever else was derived in between; and the context a successful bind
\* returns answers the lookup with the bound value at once.
C18_RoundTrip ==
    /\ (binding.op = "lookup" /\ binding.had # UntypedNil /\ binding.had.type = binding.T) =>
          binding.val = binding.had /\ binding.err = NoErr
    /\ (binding.op = "bind" /\ binding.err = NoErr) =>
          FromContext(binding.out, binding.key, binding.T)
             = [val |-> binding.arg, err |-> NoErr]

\* C18 is exercised: a value was bound, unbound, another bound in its
\* place or the context derived further, and the lookup returned it.
C18_Witness ==
    /\ binding.op = "lookup" /\ binding.n = MaxOps
    /\ binding.had # UntypedNil /\ binding.had.type = binding.T
    /\ binding.val = binding.had
    /\ Len(binding.ctx) = 3
    /\ binding.ctx[3].key # binding.key

\* C19 (no overwrite).  A bind under a key that has a value attached fails
\* with ErrContextExists and returns the nil context, and the context it
\* was given still answers with the attached value; a bind under a key
\* with nothing attached succeeds and returns a new context.
C19_NoOverwrite ==
    binding.op = "bind" =>
        IF binding.had # UntypedNil
        THEN /\ binding.err = "ErrContextExists"
             /\ binding.out = NilCtx
             /\ binding.ctx = binding.in
             /\ CtxValue(binding.ctx, binding.key) = binding.had
        ELSE /\ binding.err = NoErr
             /\ binding.out # NilCtx
             /\ binding.out # binding.in
             /\ CtxValue(binding.out, binding.key) = binding.arg

\* C19 is exercised: a bind was refused because another value, bound
\* earlier through a bindable of another type with the same key, is
\* attached.
C19_Witness ==
    /\ binding.op = "bind" /\ binding.err = "ErrContextExists"
    /\ binding.had # UntypedNil /\ binding.had # binding.arg
    /\ binding.had.type # binding.T
    /\ Len(binding.ctx) >= 2

\* C20 (lookup of nothing).  A lookup under a key that was never bound, or
\* was unbound since, fails with ErrStateNotFound and returns no value; a
\* bind that follows the unbind of its key succeeds.
C20_NotFound ==
    /\ (binding.op = "lookup" /\ binding.had = UntypedNil) =>
          binding.err = "ErrStateNotFound" /\ binding.val = Nil
    /\ (binding.op = "bind" /\ binding.prevOp = "unbind" /\ binding.prevKey = binding.key) =>
          binding.err = NoErr /\ CtxValue(binding.ctx, binding.key) = binding.arg

\* C20 is exercised: a value was bound and unbound and the lookup that
\* followed found nothing; or the slot was bound again after the unbind.
C20_Witness ==
    \/ /\ binding.op = "lookup" /\ binding.prevOp = "unbind"
       /\ binding.prevKey = binding.key /\ binding.err = "ErrStateNotFound"
       /\ \E i \in 1..Len(binding.ctx) :
            binding.ctx[i].key = binding.key /\ binding.ctx[i].val # UntypedNil
    \/ /\ binding.op = "bind" /\ binding.prevOp = "unbind"
       /\ binding.prevKey = binding.key /\ binding.err = NoErr
       /\ binding.in[1].key = binding.key /\ binding.in[1].val # UntypedNil

\* The outcome of a lookup through bindable b on context id.
LookupAt(heap, id, b) == FromContext(ChainOf(heap, id), b.key, b.T)

\* C21 (binds and unbinds leave their context alone).  No bind and no
\* unbind changes the outcome of any lookup on any context that existed
\* before the call, the one it was applied to included; and each branch,
\* whatever its sibling bound or unbound under the same key meanwhile,
\* looks up under each key what it bound itself or inherited.
C21_ContextsImmutable ==
    /\ [](\A br \in Branches, b \in Bindables :
            LET v == fork.own[br][b.key] IN
            (v # UntypedNil /\ v.type = b.T) =>
                LookupAt(fork.heap, fork.at[br], b) = [val |-> v, err |-> NoErr])
    /\ [][\A id \in 0..Len(fork.heap), b \in Bindables :
            LookupAt(fork'.heap, id, b) = LookupAt(fork.heap, id, b)]_vars

\* C21 is exercised: from a common parent the two branches have bound
\* different values under one key, their calls interleaved.
C21_Witness ==
    \E k \in BindKeys :
        /\ fork.own["left"][k] # UntypedNil /\ fork.own["right"][k] # UntypedNil
        /\ fork.own["left"][k] # fork.own["right"][k]
        /\ Len(fork.heap) = 4
        /\ fork.heap[1].by = "trunk" /\ fork.heap[2].by = "left"
        /\ fork.heap[3].by = "right" /\ fork.heap[4].by = "left"
        /\ fork.heap[3].key = k /\ fork.heap[4].key = k

\* C22 (type mismatch).  A lookup fails with ErrStateMismatch exactly
\* when a value is attached under the bindable's key that is not of the
\* bindable's type, and then the bindable is a dynamic one: the value was
\* bound through another dynamic bindable whose keyFunc returns the same
\* key.
C22_MismatchOnlyDynamic ==
    binding.op = "lookup" =>
        /\ binding.err = "ErrStateMismatch"
              <=> (binding.had # UntypedNil /\ binding.had.type # binding.T)
        /\ binding.err = "ErrStateMismatch" =>
              /\ binding.val = Nil
              /\ binding.key.kind = "dynamic"
              /\ \E i, j \in Instances :
                    /\ i.inst = binding.inst /\ j.inst = binding.hadBy
                    /\ i.key = j.key /\ i.T # j.T

\* C22 is exercised: a lookup has failed with ErrStateMismatch.
C22_Witness ==
    /\ binding.op = "lookup" /\ binding.err = "ErrStateMismatch"
    /\ binding.had.ref # "nil"

\* C23 (slot identity).  Two instances address the same key exactly when
\* they are static bindables of one type or dynamic bindables with one key;
\* what was bound through one static instance is returned by a lookup, and
\* refuses a bind, through another of the same type; and a call under one
\* key leaves the value under every other key as it was.
C23_SlotIdentity ==
    /\ [](/\ \A i, j \in Instances \cup {StateBindable} :
               i.key = j.key <=>
                  /\ i.key.kind = j.key.kind
                  /\ IF i.key.kind = "static" THEN i.T = j.T ELSE i.key.id = j.key.id
          /\ (binding.key.kind = "static" /\ binding.had # UntypedNil) =>
               /\ binding.op = "lookup" => binding.val = binding.had /\ binding.err = NoErr
               /\ binding.op = "bind" => binding.err = "ErrContextExists")
    /\ [][\A k \in BindKeys :
            k # binding'.key => CtxValue(binding'.ctx, k) = CtxValue(binding.ctx, k)]_vars

\* C23 is exercised: a value bound through one static instance was looked
\* up through another of the same type while values were attached under a
\* dynamic key as well.
C23_Witness ==
    /\ binding.op = "lookup" /\ binding.key.kind = "static"
    /\ binding.had # UntypedNil /\ binding.val = binding.had
    /\ binding.hadBy # binding.inst
    /\ \E k \in BindKeys : k.kind = "dynamic" /\ binding.att[k] # UntypedNil

\* What the store and the user's functions answered during an invocation:
\* for each store call whether it succeeded, and the error that ended the
\* invocation unless it is one of the binder's.
Answers(f) ==
    [oks |-> [i \in 1..Len(f.calls) |-> f.calls[i].ok],
     err |-> IF f.err \in {"ErrStateNotFound", "ErrStateMismatch", "ErrContextExists"}
             THEN NoErr ELSE f.err]

\* C24 (a step without a Run State).  While an invocation runs with no Run
\* State bound in its context no State gains a record, and the invocation
\* does not end with an error of the binder.  Made with and without a Run
\* State against the same store for the same parent, and given the same
\* answers by the store and the user's functions, the invocation issues
\* the same store calls with the same arguments and returns the same result
\* and error.
C24_SameWithoutState ==
    \A r \in Sequential :
        LET f == rc[r] IN
        /\ (twin.phase > 0 /\ ~twin.bound) =>
              /\ runState = twin.states
              /\ gh[r].log = <<>>
              /\ f.err \notin {"ErrStateNotFound", "ErrStateMismatch", "ErrContextExists"}
        /\ (twin.phase = 2 /\ f.pc = "ret" /\ Answers(f) = Answers(twin.first)) =>
              /\ f.calls = twin.first.calls
              /\ f.result = twin.first.result
              /\ f.err = twin.first.err

\* C24 is exercised: the invocation without a Run State has written to the
\* store and returned, as its twin with a Run State did, which appended a
\* record.
C24_Witness ==
    \E r \in Sequential :
        /\ twin.phase = 2 /\ ~twin.bound /\ rc[r].pc = "ret"
        /\ Answers(rc[r]) = Answers(twin.first)
        /\ Len(rc[r].calls) >= 2 /\ rc[r].result = Changed
        /\ Len(runState[r].Conditions) = 1

\* The invocation's call number i is a get of the desired child's key that
\* succeeded: the main fetch found the current child.
FetchedAt(f, i) ==
    /\ f.calls[i].op = "get" /\ f.calls[i].ok
    /\ f.desired # Nil /\ f.calls[i].arg = ObjectKeyFromObject(f.desired)

\* C25 (PreUpdateFn on the update path only).  PreUpdateFn is invoked at
\* most once in an invocation, and only when it is configured, the
\* predicate let the step pass, ReconcileFn and the key check succeeded and
\* the get of the desired child's key found the child: never in an
\* invocation that issues a create or a delete.  An invocation in which it
\* failed returns that error with the idle result and has issued no update
\* and no dry-run.
C25_PreUpdateOnUpdatePath ==
    \A r \in Runs :
        LET f == rc[r] IN
        /\ f.pre <= 1
        /\ f.pre = 1 =>
              /\ Cfg(f).PreUpdateFn # "nil"
              /\ "ReconcileFn" \in f.evals /\ ~Gated(Cfg(f), f.parent)
              /\ \E i \in 1..Len(f.calls) : FetchedAt(f, i)
              /\ ~Issued(f, "create") /\ ~Issued(f, "delete")
              /\ f.err \notin {"ComputeError", "ErrChildKeyMismatch", "OwnerLinkError"}
        /\ f.err = "PreUpdateError" =>
              /\ f.pc = "ret" /\ f.pre = 1 /\ f.result = Idle
              /\ ~Issued(f, "update") /\ ~Issued(f, "dryrun")

\* C25 is exercised: the pre-check found the child and let it live, the
\* main fetch found it again, and PreUpdateFn failed.
C25_Witness ==
    \E r \in Runs :
        LET f == rc[r] IN
        /\ f.err = "PreUpdateError" /\ f.pc = "ret"
        /\ Ops(f) = <<"get", "get">>
        /\ f.current # Nil

\* ReconcileFn names the child as ChildKeyFn does.
KeysAgree(c, p) ==
    ObjectKeyFromObject(ReconcileFn(c, p)) = ObjectKeyFromObject(ChildKeyFn(p))

\* C26 (a matching child key is accepted), as stated.  With ChildKeyFn
\* configured, an invocation whose ReconcileFn returned a child of the name
\* and namespace ChildKeyFn declares does not fail with ErrChildKeyMismatch,
\* with or without ShouldDeleteFn.
C26_MatchingKeyAccepted ==
    \A r \in Runs :
        LET f == rc[r]
            c == Cfg(f) IN
        (/\ f.pc # "none" /\ c.Kind = "simple" /\ c.ChildKeyFn
         /\ "ReconcileFn" \in f.evals /\ KeysAgree(c, f.parent)) =>
            f.err # "ErrChildKeyMismatch"

\* The invocation found the child and found it to differ from the desired
\* one under the exclusions, and so did the dry runs if it made them.
Differs(f) ==
    LET c == Cfg(f) IN
    /\ Compared(f) /\ ~CmpEqual(f.current, f.desired, c.CompareOpts)
    /\ c.DryRunType # "none" =>
          /\ f.desiredCopy # Nil /\ f.currentHack # Nil
          /\ ~CmpEqual(f.currentHack, f.desiredCopy, c.CompareOpts)

IsUpdate(op) == op = "update"

\* The store holds the fields of the desired child d, the unset one as the
\* store defaults it.
Holds(d) ==
    LET st == store[ObjectKeyFromObject(d)] IN
    /\ st # Absent
    /\ st.data = d.data /\ st.ann = d.ann /\ st.owner = d.owner
    /\ st.dflt = Normalize(d).dflt

\* The invocation of run r follows one of the same step for the same parent
\* that updated the child, and nobody else has written since that one began.
SecondAfterUpdate(r) == Returned(r) /\ gh[r].prev = "UPDATE" /\ ~gh[r].foreign

\* C27 (update path), as stated.  An invocation that found the child to
\* differ and did not fail issued exactly one update and returned requeue,
\* and the store holds the desired fields; and the invocation that follows
\* an update with the same parent, when it does not fail, issues no write
\* and returns idle.
C27_UpdateThenIdle ==
    \A r \in Runs :
        LET f == rc[r] IN
        /\ (Returned(r) /\ Differs(f) /\ f.err = NoErr) =>
              /\ Len(SelectSeq(Ops(f), IsUpdate)) = 1
              /\ f.result = RequeueNow
              /\ Holds(f.desired)
        /\ (SecondAfterUpdate(r) /\ f.err = NoErr) =>
              /\ Writes(f) \in {<<>>, <<"dryrun", "dryrun">>}
              /\ f.result = Idle

\* C27, amended.  The first half as stated.  The invocation that follows
\* an update with the same parent issues no create and no delete; it issues
\* an update only under DryRunNone and only when the child as stored
\* differs from the desired one in a compared field; and without an update
\* it leaves the store alone and, unless it failed, returns idle.
C27_UpdateThenSettled ==
    \A r \in Runs :
        LET f == rc[r]
            c == Cfg(f) IN
        /\ (Returned(r) /\ Differs(f) /\ f.err = NoErr) =>
              /\ Len(SelectSeq(Ops(f), IsUpdate)) = 1
              /\ f.result = RequeueNow
              /\ Holds(f.desired)
        /\ SecondAfterUpdate(r) =>
              /\ ~Issued(f, "create") /\ ~Issued(f, "delete")
              /\ Issued(f, "update") =>
                    /\ c.DryRunType = "none"
                    /\ ~CmpEqual(f.current, f.desired, c.CompareOpts)
              /\ ~Issued(f, "update") =>
                    /\ ~Wrote(f)
                    /\ f.err = NoErr => f.result = Idle

\* C27 is exercised: an update made after the dry runs differed, followed
\* by an invocation that found the stored child to differ from the desired
\* one, dry-ran both, found them equal and returned idle.
C27_Witness ==
    \E r \in Runs :
        LET f == rc[r] IN
        /\ SecondAfterUpdate(r)
        /\ Ops(f) = <<"get", "dryrun", "dryrun">>
        /\ f.err = NoErr /\ f.result = Idle
        /\ Holds(f.desired)

\* C28 (ReconcileFn fails).  An invocation whose ReconcileFn returned an
\* error has returned, with that error and the idle result; it issued no
\* create, update, delete or dry-run, only the get of the pre-check if
\* ShouldDeleteFn is configured; and the step in which ReconcileFn failed
\* left the store as it was.
C28_ComputeErrorNoWrite ==
    /\ [](\A r \in Runs :
            LET f == rc[r] IN
            f.err = "ComputeError" =>
                /\ f.pc = "ret" /\ f.result = Idle
                /\ "ReconcileFn" \in f.evals
                /\ Writes(f) = <<>>
                /\ Ops(f) = IF Cfg(f).ShouldDeleteFn THEN <<"get">> ELSE <<>>)
    /\ [][\A r \in Runs :
            (rc'[r].err = "ComputeError" /\ rc[r].pc # "ret") =>
                store' = store /\ rvCounter' = rvCounter]_vars

\* C28 is exercised: the pre-check found the child, ShouldDeleteFn let it
\* live, and ReconcileFn failed; the child is still in the store.
C28_Witness ==
    \E r \in Runs :
        LET f == rc[r] IN
        /\ f.err = "ComputeError" /\ f.pc = "ret"
        /\ Ops(f) = <<"get">> /\ f.calls[1].ok
        /\ store[f.calls[1].arg] # Absent

\* The invocation got as far as the key check: ReconcileFn was called and
\* returned a child.
KeyChecked(f) ==
    /\ f.pc = "ret" /\ Cfg(f).Kind = "simple" /\ Cfg(f).ChildKeyFn
    /\ "ReconcileFn" \in f.evals /\ f.err # "ComputeError"

\* The invocation stopped at the key check: ErrChildKeyMismatch with the
\* idle result, and no store call but the get of the pre-check, which is
\* for the declared key.
StoppedAtKeyCheck(f) ==
    /\ f.err = "ErrChildKeyMismatch" /\ f.result = Idle
    /\ Ops(f) = IF Cfg(f).ShouldDeleteFn THEN <<"get">> ELSE <<>>
    /\ \A i \in 1..Len(f.calls) :
          f.calls[i].arg = ObjectKeyFromObject(ChildKeyFn(f.parent))

CheckedKey(f) ==
    IF Cfg(f).ShouldDeleteFn THEN ObjectKeyFromObject(ChildKeyFn(f.parent)) ELSE ZeroKey

\* The child's name and namespace with the empty ones taken from key k.
Filled(d, k) ==
    [name |-> IF d.name = "" THEN k.name ELSE d.name,
     namespace |-> IF d.namespace = "" THEN k.namespace ELSE d.namespace]

MainFetch(f) ==
    LET i == IF Cfg(f).ShouldDeleteFn THEN 2 ELSE 1 IN
    IF Len(f.calls) >= i /\ f.calls[i].op = "get" THEN i ELSE 0

IsCreate(op) == op = "create"

\* C30 (fetch outcomes).  An invocation never returns the not-found of a
\* get: after a get that failed it either goes on, and the get was a
\* not-found, or it returns, and the error is another one.  When the get
\* of the pre-check fails and the invocation goes on, it goes on as if the
\* child was not there; when the main fetch fails and the invocation goes
\* on, what follows is one create and nothing else.  An invocation that
\* returned because a get failed returned the idle result and issued no
\* create, update or delete.
C30_FetchOutcomes ==
    \A r \in Runs :
        LET f == rc[r]
            n == Len(f.calls)
            m == MainFetch(f) IN
        /\ (f.pc = "ret" /\ n > 0 /\ f.calls[n].op = "get") => f.err # "NotFound"
        /\ (f.pc = "ret" /\ n > 0 /\ f.calls[n].op = "get" /\ ~f.calls[n].ok
            /\ f.err \in {"StoreError", "Invalid"}) =>
              /\ f.result = Idle
              /\ ~Issued(f, "create") /\ ~Issued(f, "update") /\ ~Issued(f, "delete")
        /\ (Cfg(f).ShouldDeleteFn /\ n > 0 /\ ~f.calls[1].ok
            /\ f.pc \notin {"precheck", "ret"}) =>
              ~Issued(f, "delete")
        /\ (m > 0 /\ ~f.calls[m].ok) =>
              /\ f.pc \in {"create", "ret"}
              /\ f.pc = "create" => n = m
              /\ (f.pc = "ret" /\ n = m) => f.err \in {"StoreError", "Invalid"}
              /\ n > m => (n = m + 1 /\ f.calls[n].op = "create")
              /\ Len(SelectSeq(Ops(f), IsCreate)) <= 1

\* C30 is exercised: the pre-check did not find the child, the main fetch
\* did not find it either, and the invocation created it.
C30_Witness ==
    \E r \in Runs :
        LET f == rc[r] IN
        /\ f.pc = "ret" /\ f.err = NoErr
        /\ Ops(f) = <<"get", "get", "create">>
        /\ ~f.calls[1].ok /\ ~f.calls[2].ok /\ f.calls[3].ok

\* What the store answered to each call of an invocation, and the error a
\* function of the user returned, if one did.
Replies(f) == [i \in 1..Len(f.calls) |-> f.calls[i].err]

UserErr(f) ==
    IF f.err \in {"ComputeError", "OwnerLinkError", "PreUpdateError"} THEN f.err ELSE NoErr

\* Two invocations were given the same answers, as far as both asked.
SameReplies(f, g) ==
    /\ UserErr(f) = UserErr(g)
    /\ \A i \in 1..Len(f.calls) :
          i <= Len(g.calls) => f.calls[i].err = g.calls[i].err

\* C31 (the dry run decides).  With DryRunNone an invocation issues no
\* dry-run apply.  With DryRunWarn or DryRunSilent, once the fetched child
\* and the desired one were found unequal, the next call is the dry-run
\* apply of a copy of desired and, that one accepted, the next the dry-run
\* apply of a copy of current; both accepted, the invocation issues the
\* update, with desired, exactly when the two results are unequal under
\* the options, and otherwise returns idle without an update.  No update
\* is issued on any other ground, and a refused dry-run apply ends the
\* invocation with its error.  The same invocation made under DryRunWarn
\* and under DryRunSilent, the store answering alike, issues the same
\* calls with the same arguments and returns the same result and error.
C31_DryRunDecides ==
    \A r \in Sequential :
        LET f == rc[r]
            c == Cfg(f)
            n == Len(f.calls)
            m == MainFetch(f)
            unequal == /\ m > 0 /\ f.calls[m].ok /\ Compared(f)
                       /\ ~CmpEqual(f.current, f.desired, c.CompareOpts) IN
        /\ c.DryRunType = "none" => ~Issued(f, "dryrun")
        /\ Issued(f, "dryrun") => unequal
        /\ (unequal /\ c.DryRunType # "none") =>
              /\ f.pc \in {"dryDesired", "dryCurrent", "update", "ret"}
              /\ f.pc = "dryDesired" <=> n = m
              /\ n > m =>
                    /\ f.calls[m+1].op = "dryrun" /\ f.calls[m+1].arg = f.desired
                    /\ ~f.calls[m+1].ok =>
                          /\ f.pc = "ret" /\ n = m + 1
                          /\ f.err = f.calls[m+1].err /\ f.result = Idle
                    /\ f.calls[m+1].ok => (f.pc = "dryCurrent" <=> n = m + 1)
              /\ n > m + 1 =>
                    /\ f.calls[m+2].op = "dryrun" /\ f.calls[m+2].arg = f.current
                    /\ ~f.calls[m+2].ok =>
                          /\ f.pc = "ret" /\ n = m + 2
                          /\ f.err = f.calls[m+2].err /\ f.result = Idle
                    /\ f.calls[m+2].ok =>
                          IF CmpEqual(f.currentHack, f.desiredCopy, c.CompareOpts)
                          THEN /\ f.pc = "ret" /\ n = m + 2
                               /\ f.result = Idle /\ f.err = NoErr
                          ELSE \/ f.pc = "update" /\ n = m + 2
                               \/ /\ f.pc = "ret" /\ n = m + 3
                                  /\ f.calls[n].op = "update"
                                  /\ f.calls[n].arg = f.desired
        /\ (twin.phase = 2 /\ f.pc = "ret" /\ SameReplies(f, twin.first)) =>
              /\ f.calls = twin.first.calls
              /\ f.result = twin.first.result
              /\ f.err = twin.first.err

\* C31 is exercised: under DryRunSilent the invocation found the child to
\* differ in the field the store defaults, made both dry runs, found their
\* results equal and returned idle without an update, as the same
\* invocation under DryRunWarn had done.
C31_Witness ==
    \E r \in Sequential :
        LET f == rc[r] IN
        /\ twin.phase = 2 /\ f.pc = "ret" /\ SameReplies(f, twin.first)
        /\ Cfg(f).DryRunType = "silent" /\ Cfg(twin.first).DryRunType = "warn"
        /\ Ops(f) = <<"get", "dryrun", "dryrun">>
        /\ f.calls[3].ok /\ f.result = Idle /\ f.err = NoErr
        /\ ~CmpEqual(f.current, f.desired, Cfg(f).CompareOpts)

\* C32 (a child that should be deleted is gone), as stated.  When
\* ShouldDeleteFn answers true for the parent and the invocation returns
\* without error, the store does not hold the child ChildKeyFn names: it
\* was deleted, or it was absent and has not been created.
C32_GoneWhenShouldDelete ==
    \A r \in Sequential :
        LET f == rc[r] IN
        (Returned(r) /\ f.err = NoErr /\ WantsDelete(f)) =>
            store[ObjectKeyFromObject(ChildKeyFn(f.parent))] = Absent

\* The context Conduct passes to what it invokes at position k of a run
\* (the handler's is one past the last step's): the derived context that a
\* step before k registered last, or the one BindState made.
CtxFor(r, k) ==
    LET d == cd[r].derived
        reg == {j \in 1..Len(d) : d[j].pos < k /\ d[j].registered} IN
    IF reg = {} THEN BindState(cd[r].ctx, r).ctx
    ELSE d[CHOOSE j \in reg : \A i \in reg : i <= j].ctx

\* What is invoked at position k with context ctx sees the data of every
\* earlier step that registered its derived context, and none of a step
\* that did not.
SeesRegistered(r, k, ctx) ==
    /\ ctx = CtxFor(r, k)
    /\ \A j \in 1..Len(cd[r].derived) :
          LET e == cd[r].derived[j] IN
          e.pos < k =>
              IF e.registered
              THEN /\ IsPrefix(e.ctx, ctx)
                   /\ FromContext(ctx, e.key, "Other") = [val |-> e.val, err |-> NoErr]
              ELSE /\ ~IsPrefix(e.ctx, ctx)
                   /\ FromContext(ctx, e.key, "Other").val # e.val

\* C33 (context rebinding within a run).  Every step of a run is invoked
\* with the context the latest earlier step registered with the Run State
\* through UpdateContext (the one BindState made if none did), and so is
\* the conditions handler: in it the data of each earlier step that
\* registered its derived context can be looked up, and a derived context
\* that was not registered is not part of it, nor is its data found.
C33_RegisteredContextSeen ==
    \A r \in Sequential :
        LET c == cd[r]
            f == rc[r] IN
        /\ (c.pc = "step" /\ f.pc # "none") => SeesRegistered(r, Len(c.invoked), f.ctx)
        /\ \A i \in 1..Len(c.handled) :
              SeesRegistered(r, Len(reconcilers) + 1, c.handled[i].ctx)

\* C33 is exercised: the first step registered its derived context, the
\* second derived one and did not register it, the third ran, and the
\* handler was called with a context that holds the first step's data.
C33_Witness ==
    \E r \in Sequential :
        LET c == cd[r] IN
        /\ Len(c.handled) = 1 /\ Len(c.derived) = 3
        /\ c.derived[1].registered /\ ~c.derived[2].registered
        /\ c.derived[1].key # c.derived[2].key
        /\ FromContext(c.handled[1].ctx, c.derived[1].key, "Other").val = c.derived[1].val

\* C34 (engine accesses under the lock), as stated.  Every read Conduct
\* makes of the State's context and of its list of conditions is made
\* while Conduct holds the State's mutex, and so none of them falls inside
\* a call of AddCondition or UpdateContext that a goroutine of a step is
\* making.
C34_EngineUnderLock ==
    \A i \in 1..Len(adder.engine.reads) :
        LET a == adder.engine.reads[i] IN
        a.holder = "conduct" /\ a.during = {}

\* The invocations of a sequence that have returned, the last one included
\* once it has returned without error.
Sequence(r) ==
    IF rc[r].pc = "ret" /\ rc[r].err = NoErr
    THEN Append(gh[r].seq, Done(rc[r]))
    ELSE gh[r].seq

IsCreated(d) == d.out = "CREATE"
IsUpdated(d) == d.out = "UPDATE"

\* C35 (convergence), as stated, for its part that a finite run refutes.
\* In a sequence of invocations of a step with DryRunWarn or DryRunSilent,
\* the parent unchanged, nobody else writing and no call failing, at most
\* one invocation creates the child and at most one updates it, and once
\* an invocation has returned idle every later one returns idle.
C35_Converges ==
    \A r \in Sequential :
        LET q == Sequence(r) IN
        /\ Len(SelectSeq(q, IsCreated)) <= 1
        /\ Len(SelectSeq(q, IsUpdated)) <= 1
        /\ \A i \in 1..Len(q) : \A j \in i..Len(q) :
              q[i].result = Idle => q[j].result = Idle

\* Every update and dry-run apply of the invocation was issued with the
\* version token, identity token, creation timestamp and generation of the
\* child the invocation fetched.
CarriesTokens(f) ==
    \A i \in 1..Len(f.calls) :
        f.calls[i].op \in {"update", "dryrun"} =>
            /\ f.current # Nil
            /\ f.calls[i].arg.rv = f.current.rv
            /\ f.calls[i].arg.uid = f.current.uid
            /\ f.calls[i].arg.ts = f.current.ts
            /\ f.calls[i].arg.gen = f.current.gen

\* The invocation's update was accepted by the store.
Updated(f) ==
    \E i \in 1..Len(f.calls) : f.calls[i].op = "update" /\ f.calls[i].ok

\* The child is no longer in the store as the invocation fetched it.
Stale(f) ==
    LET st == store[ObjectKeyFromObject(f.desired)] IN
    st = Absent \/ st.rv # f.current.rv \/ st.uid # f.current.uid

\* C36 (optimistic concurrency).  Every update and dry-run apply carries
\* the tokens of the child fetched in the same invocation.  An update
\* issued after somebody else changed the child since that get is refused:
\* the store stays as it is and the invocation returns the store's error
\* with the idle result.  Of two invocations that fetched the same version
\* of the child at most one has had its update accepted.
C36_OptimisticConcurrency ==
    /\ [](/\ \A r \in Runs : CarriesTokens(rc[r])
          /\ \A r1 \in Runs : \A r2 \in Runs \ {r1} :
                (/\ Updated(rc[r1]) /\ Updated(rc[r2])
                 /\ ObjectKeyFromObject(rc[r1].desired) = ObjectKeyFromObject(rc[r2].desired))
                    => rc[r1].current.rv # rc[r2].current.rv)
    /\ [][\A r \in Runs :
            (rc[r].pc = "update" /\ rc'[r].pc = "ret" /\ Stale(rc[r])) =>
                LET g == rc'[r]
                    n == Len(g.calls) IN
                /\ store' = store
                /\ g.calls[n].op = "update" /\ ~g.calls[n].ok
                /\ g.err = g.calls[n].err /\ g.err # NoErr
                /\ g.result = Idle]_vars

\* C36 is exercised: two invocations fetched the same version of the child
\* and both issued an update; the store accepted one and refused the other
\* with a conflict, which that invocation returned with the idle result.
C36_Witness ==
    \E r1 \in Runs : \E r2 \in Runs \ {r1} :
        LET f == rc[r1]
            g == rc[r2] IN
        /\ f.pc = "ret" /\ g.pc = "ret"
        /\ Updated(f) /\ Issued(g, "update")
        /\ f.current.rv = g.current.rv
        /\ g.err = "Conflict" /\ g.result = Idle
        /\ extWrites = 0

\* C37 (the handler fails).  When the conditions handler returned an
\* error, Conduct has returned that error with the idle result, and the
\* handler was called once in the run; and the step of Conduct in which the
\* handler is called leaves the store as the steps of the run left it.
C37_HandlerError ==
    /\ [](\A r \in Runs :
            LET c == cd[r] IN
            /\ Len(c.handled) <= 1
            /\ (Len(c.handled) = 1 /\ c.handled[1].err # NoErr) =>
                  /\ c.pc = "done"
                  /\ c.err = c.handled[1].err /\ c.result = Idle)
    /\ [][\A r \in Runs :
            Len(cd'[r].handled) > Len(cd[r].handled) =>
                store' = store /\ rvCounter' = rvCounter]_vars

\* C37 is exercised: a run created the child, the next run found nothing
\* to do, its handler failed and Conduct returned the handler's error; the
\* child is still in the store.
C37_Witness ==
    \E r \in Runs :
        LET c == cd[r] IN
        /\ c.pc = "done" /\ Len(c.handled) = 1
        /\ c.handled[1].err = "HandlerError" /\ c.err = "HandlerError"
        /\ gh[r].n = 2
        /\ \E k \in Keys : store[k] # Absent

\* C38 (Conduct on a context that holds a Run State).  A Conduct call
\* whose context already holds a Run State has returned ErrContextExists
\* with the idle result, and has invoked no step and not the handler; and
\* the step in which it fails leaves every State, the store and the
\* Conductor's parent as they were.
C38_AlreadyBound ==
    /\ [](\A r \in Runs :
            LET c == cd[r] IN
            (c.pc # "idle" /\ FetchState(c.ctx).err = NoErr) =>
                /\ c.pc = "done"
                /\ c.err = "ErrContextExists" /\ c.result = Idle
                /\ c.invoked = <<>> /\ c.returned = <<>> /\ c.handled = <<>>)
    /\ [][\A r \in Runs :
            (cd'[r] # cd[r] /\ cd'[r].invoked = <<>> /\ cd'[r].pc = "done"
             /\ FetchState(cd'[r].ctx).err = NoErr) =>
                /\ runState' = runState /\ dparent' = dparent
                /\ store' = store]_vars

\* C38 is exercised: Conduct was called with the context of an earlier run
\* whose State holds a condition, and returned ErrContextExists; the State
\* still holds the condition.
C38_Witness ==
    \E r \in Runs :
        LET c == cd[r]
            fs == FetchState(c.ctx) IN
        /\ c.pc = "done" /\ c.err = "ErrContextExists"
        /\ fs.err = NoErr
        /\ runState[fs.val.ref].Conditions # <<>>
        /\ gh[r].n = 2

\* C39 (the builder's default gate).  A step built with FromReconcileFunc
\* and no WithPredicateFn, invoked for a parent that carries a deletion
\* timestamp, never calls ReconcileFn and issues no create, update or
\* dry-run apply.  Its only calls are those of the pre-check, if
\* ShouldDeleteFn is configured: the get, and the delete after it.  Unless
\* the pre-check deleted the child or failed, it returns idle without
\* error.
C39_DefaultGate ==
    \A r \in Runs :
        LET f == rc[r] IN
        (f.pc # "none" /\ Cfg(f).Kind = "simple" /\ f.parent.deleting) =>
            /\ "ReconcileFn" \notin f.evals
            /\ ~Issued(f, "create") /\ ~Issued(f, "update") /\ ~Issued(f, "dryrun")
            /\ IF Cfg(f).ShouldDeleteFn
               THEN IsPrefix(Ops(f), <<"get", "delete">>)
               ELSE f.calls = <<>>
            /\ (f.pc = "ret" /\ ~Issued(f, "delete") /\ f.err = NoErr) =>
                  f.result = Idle /\ "PredicateFn" \in f.evals
            /\ (f.pc = "ret" /\ f.calls = <<>>) => f.result = Idle /\ f.err = NoErr

\* C39 is exercised: an earlier run created the child; in the next the
\* parent carries a deletion timestamp, the pre-check of a step built with
\* WithShouldDeleteFn found the child and let it live, and the step
\* returned idle at the gate.
C39_Witness ==
    \E r \in Runs :
        LET f == rc[r] IN
        /\ f.pc = "ret" /\ Cfg(f) = WithShouldDeleteFn
        /\ f.parent.deleting
        /\ Ops(f) = <<"get">> /\ f.calls[1].ok
        /\ f.result = Idle /\ f.err = NoErr
        /\ "PredicateFn" \in f.evals

====
